---- MODULE Spec2Model ----
(***************************************************************************)
(* A model of the rs-lox-tw tree-walking interpreter: the environment      *)
(* chain (src/src/environment.rs), the recursive-descent parser            *)
(* (src/src/parser.rs) and the block-scoped environment swap of the        *)
(* evaluator.                                                              *)
(***************************************************************************)
EXTENDS Integers, Sequences, FiniteSets, TLC

VARIABLES
    frames,       \* environment.rs: every Environment created so far
    last,         \* the last Environment operation, its arguments and result
    environment,  \* interpreter: the current-environment slot
    saved,        \* interpreter: the environments saved by running blocks
    signal,       \* interpreter: the signal that is unwinding, if any
    lastExit,     \* interpreter: the last exit from a block
    tokens,       \* parser.rs: Parser.tokens
    current,      \* parser.rs: Parser.current
    statements,   \* parser.rs: `statements` of Parser::parse
    reported,     \* parser.rs: the errors printed by Parser::declaration
    parseResult,  \* parser.rs: what Parser::parse returned, once it has
    program,      \* interpreter.rs: `statements` of Interpreter::interpret
    pc,           \* interpreter.rs: how many statements interpret has executed
    executed,     \* interpreter.rs: what each executed statement did
    source,       \* scanner.rs: Scanner.source, as a sequence of characters
    start,        \* scanner.rs: Scanner.start
    scanner_current, \* scanner.rs: Scanner.current
    line,         \* scanner.rs: Scanner.line
    scanResult,   \* scanner.rs: what Scanner::scan_tokens returned, once it has
    resolveResult \* what Resolver::resolve_stmts returned, once it has

envVars == <<frames, last>>
blockVars == <<environment, saved, signal, lastExit>>
parserVars == <<tokens, current, statements, reported, parseResult>>
interpreterVars == <<program, pc, executed>>
scannerVars == <<source, start, scanner_current, line, scanResult>>
vars == <<frames, last, environment, saved, signal, lastExit,
          tokens, current, statements, reported, parseResult,
          program, pc, executed,
          source, start, scanner_current, line, scanResult, resolveResult>>

-----------------------------------------------------------------------------
(* Bounds *)

MaxFrames == 3
MaxBindings == 3

Names == {"a", "b"}
Values == {1, 2}
Distances == 0..(MaxFrames - 1)

-----------------------------------------------------------------------------
(* src/src/environment.rs *)

\* Option::None of `enclosing`
None == 0

\* HashMap::new()
EmptyMap == [n \in {} |-> 0]

\* Environment::new
new == [enclosing |-> None, values |-> EmptyMap]

\* from_enclosing that leaves the new frame without its enclosing link
from_enclosing_unlinked(env) == [enclosing |-> None, values |-> EmptyMap]

\* Environment::from_enclosing
from_enclosing(env) == [enclosing |-> env, values |-> EmptyMap]

\* HashMap::insert
insert(map, name, obj) ==
    [n \in (DOMAIN map) \cup {name} |-> IF n = name THEN obj ELSE map[n]]

\* Result values of the Environment operations
OkResult(v) == [kind |-> "Ok", value |-> v]
UnknownVariable == [kind |-> "UnknownVariable", value |-> 0]
Panic == [kind |-> "Panic", value |-> 0]

\* define as HashMap::entry(name).or_insert(obj): an existing binding is kept
define_keeps_existing(fs, f, name, obj) ==
    IF name \in DOMAIN fs[f].values
    THEN fs
    ELSE [fs EXCEPT ![f].values = insert(@, name, obj)]

\* Environment::define
define(fs, f, name, obj) ==
    [fs EXCEPT ![f].values = insert(@, name, obj)]

\* get that asks the enclosing frame before its own map
RECURSIVE get_enclosing_first(_, _, _)
get_enclosing_first(fs, f, name) ==
    IF fs[f].enclosing # None
       /\ get_enclosing_first(fs, fs[f].enclosing, name).kind = "Ok"
    THEN get_enclosing_first(fs, fs[f].enclosing, name)
    ELSE IF name \in DOMAIN fs[f].values
         THEN OkResult(fs[f].values[name])
         ELSE UnknownVariable

\* Environment::get
RECURSIVE get(_, _, _)
get(fs, f, name) ==
    IF name \in DOMAIN fs[f].values
    THEN OkResult(fs[f].values[name])
    ELSE IF fs[f].enclosing # None
         THEN get(fs, fs[f].enclosing, name)
         ELSE UnknownVariable

\* The `for i in 1..distance` loop of Environment::ancestor; None when an
\* unwrap of a missing parent panics.
RECURSIVE ancestor_loop(_, _, _, _)
ancestor_loop(fs, env, i, distance) ==
    IF i >= distance
    THEN env
    ELSE IF fs[env].enclosing = None
         THEN None
         ELSE ancestor_loop(fs, fs[env].enclosing, i + 1, distance)

\* Environment::ancestor; None when it panics.
ancestor(fs, f, distance) ==
    IF fs[f].enclosing = None
    THEN None
    ELSE ancestor_loop(fs, fs[f].enclosing, 1, distance)

\* Environment::get_at
get_at(fs, f, distance, name) ==
    IF distance > 0
    THEN IF ancestor(fs, f, distance) = None
         THEN Panic
         ELSE get(fs, ancestor(fs, f, distance), name)
    ELSE IF name \in DOMAIN fs[f].values
         THEN OkResult(fs[f].values[name])
         ELSE UnknownVariable

\* assign that inserts into the outermost frame when no frame binds the name
RECURSIVE assign_or_insert(_, _, _, _)
assign_or_insert(fs, f, name, value) ==
    IF name \in DOMAIN fs[f].values
    THEN [frames |-> [fs EXCEPT ![f].values = insert(@, name, value)],
          result |-> OkResult(0)]
    ELSE IF fs[f].enclosing # None
         THEN assign_or_insert(fs, fs[f].enclosing, name, value)
         ELSE [frames |-> [fs EXCEPT ![f].values = insert(@, name, value)],
               result |-> OkResult(0)]

\* assign that asks the enclosing frame before its own map
RECURSIVE assign_enclosing_first(_, _, _, _)
assign_enclosing_first(fs, f, name, value) ==
    IF fs[f].enclosing # None
       /\ assign_enclosing_first(fs, fs[f].enclosing, name, value).result.kind
             = "Ok"
    THEN assign_enclosing_first(fs, fs[f].enclosing, name, value)
    ELSE IF name \in DOMAIN fs[f].values
         THEN [frames |-> [fs EXCEPT ![f].values = insert(@, name, value)],
               result |-> OkResult(0)]
         ELSE [frames |-> fs, result |-> UnknownVariable]

\* Environment::assign: the frames after the call and its result
RECURSIVE assign(_, _, _, _)
assign(fs, f, name, value) ==
    IF name \in DOMAIN fs[f].values
    THEN [frames |-> [fs EXCEPT ![f].values = insert(@, name, value)],
          result |-> OkResult(0)]
    ELSE IF fs[f].enclosing # None
         THEN assign(fs, fs[f].enclosing, name, value)
         ELSE [frames |-> fs, result |-> UnknownVariable]

\* Environment::assign_at
assign_at(fs, f, distance, name, value) ==
    IF ancestor(fs, f, distance) = None
    THEN [frames |-> fs, result |-> Panic]
    ELSE assign(fs, ancestor(fs, f, distance), name, value)

-----------------------------------------------------------------------------
(* The environment chain as a state machine: one action per operation *)

Frames == 1..Len(frames)

\* The number of bindings the frames hold together
RECURSIVE Bindings(_, _)
Bindings(fs, n) ==
    IF n = 0 THEN 0 ELSE Cardinality(DOMAIN fs[n].values) + Bindings(fs, n - 1)

Op(op, f, d, name, value, result) ==
    [op |-> op, frame |-> f, distance |-> d, name |-> name,
     value |-> value, result |-> result]

\* A behaviour builds a tree of environments with from_enclosing and define and
\* then applies one lookup or assignment to it.  assign and assign_at only
\* replace values that define can set too, so the trees the lookups and
\* assignments are applied to are all the trees the operations can produce.
Building == last.op \in {"new", "from_enclosing", "define"}

EnvIdle ==
    /\ environment = 1 /\ saved = <<>> /\ signal = "none"
    /\ lastExit = [path |-> "none", entry |-> 0, after |-> 0, block |-> 0]

ParserIdle ==
    /\ tokens = <<"Eof">> /\ current = 0 /\ statements = <<>>
    /\ reported = <<>> /\ parseResult = [st |-> "none"]

InterpreterIdle == program = <<>> /\ pc = 0 /\ executed = <<>>

ScannerIdle ==
    /\ source = <<>> /\ start = 0 /\ scanner_current = 0 /\ line = 1
    /\ scanResult = [st |-> "none"] /\ resolveResult = [st |-> "none"]

EnvInit ==
    /\ frames = <<new>>
    /\ last = Op("new", 1, 0, "-", 0, OkResult(0))
    /\ EnvIdle
    /\ ParserIdle
    /\ InterpreterIdle
    /\ ScannerIdle

CallFromEnclosing ==
    /\ Building
    /\ Len(frames) < MaxFrames
    /\ \E e \in Frames :
          /\ frames' = Append(frames, from_enclosing(e))
          /\ last' = Op("from_enclosing", Len(frames) + 1, 0, "-", 0, OkResult(0))
    /\ UNCHANGED <<blockVars, parserVars,
                 interpreterVars, scannerVars, resolveResult>>

CallDefine ==
    /\ Building
    /\ \E f \in Frames, name \in Names, obj \in Values :
          /\ Bindings(define(frames, f, name, obj), Len(frames)) <= MaxBindings
          /\ frames' = define(frames, f, name, obj)
          /\ last' = Op("define", f, 0, name, obj, OkResult(0))
    /\ UNCHANGED <<blockVars, parserVars,
                 interpreterVars, scannerVars, resolveResult>>

CallGet ==
    /\ Building
    /\ \E f \in Frames, name \in Names :
          last' = Op("get", f, 0, name, 0, get(frames, f, name))
    /\ UNCHANGED <<frames, blockVars, parserVars,
                 interpreterVars, scannerVars, resolveResult>>

CallGetAt ==
    /\ Building
    /\ \E f \in Frames, d \in Distances, name \in Names :
          last' = Op("get_at", f, d, name, 0, get_at(frames, f, d, name))
    /\ UNCHANGED <<frames, blockVars, parserVars,
                 interpreterVars, scannerVars, resolveResult>>

CallAssign ==
    /\ Building
    /\ \E f \in Frames, name \in Names, value \in Values :
          /\ frames' = assign(frames, f, name, value).frames
          /\ last' = Op("assign", f, 0, name, value,
                        assign(frames, f, name, value).result)
    /\ UNCHANGED <<blockVars, parserVars,
                 interpreterVars, scannerVars, resolveResult>>

CallAssignAt ==
    /\ Building
    /\ \E f \in Frames, d \in Distances, name \in Names, value \in Values :
          /\ frames' = assign_at(frames, f, d, name, value).frames
          /\ last' = Op("assign_at", f, d, name, value,
                        assign_at(frames, f, d, name, value).result)
    /\ UNCHANGED <<blockVars, parserVars,
                 interpreterVars, scannerVars, resolveResult>>

EnvNext ==
    \/ CallFromEnclosing
    \/ CallDefine
    \/ CallGet
    \/ CallGetAt
    \/ CallAssign
    \/ CallAssignAt

EnvSpec == EnvInit /\ [][EnvNext]_vars

-----------------------------------------------------------------------------
(* Properties of the environment chain *)

\* The frame exactly d enclosing hops out from f; None when the chain of f
\* has fewer than d enclosing frames.
RECURSIVE Hops(_, _, _)
Hops(fs, f, d) ==
    IF d = 0 THEN f
    ELSE IF fs[f].enclosing = None THEN None
         ELSE Hops(fs, fs[f].enclosing, d - 1)

\* The distances from f at which a frame of its chain binds name
DefiningDistances(fs, f, name) ==
    {d \in 0..(Len(fs) - 1) :
        /\ Hops(fs, f, d) # None
        /\ name \in DOMAIN fs[Hops(fs, f, d)].values}

\* The innermost frame of the chain of f that binds name (None: no frame does)
Innermost(fs, f, name) ==
    IF DefiningDistances(fs, f, name) = {}
    THEN None
    ELSE Hops(fs, f, CHOOSE d \in DefiningDistances(fs, f, name) :
                        \A e \in DefiningDistances(fs, f, name) : d <= e)

\* The lookup of name in the own map of frame t
OwnLookup(fs, t, name) ==
    IF name \in DOMAIN fs[t].values
    THEN OkResult(fs[t].values[name])
    ELSE UnknownVariable

\* C1: get_at(depth, name) skips exactly `depth` enclosing frames and looks the
\* name up in that frame's own map only: it is UnknownVariable when that frame
\* does not bind the name, even if a frame further out does.
C1_GetAtOwnMapOnly ==
    (last.op = "get_at" /\ Hops(frames, last.frame, last.distance) # None)
        => last.result =
              OwnLookup(frames, Hops(frames, last.frame, last.distance), last.name)

\* C2: assign_at(depth, name, value) changes only the own map of the frame
\* exactly `depth` hops out (depth 0: the frame itself), where it rebinds the
\* name, and leaves every other frame unchanged.
C2_AssignAtOnlyTargetFrame ==
    [][(last'.op = "assign_at"
        /\ Hops(frames, last'.frame, last'.distance) # None)
       => LET t == Hops(frames, last'.frame, last'.distance) IN
            /\ \A g \in Frames : g # t => frames'[g] = frames[g]
            /\ frames'[t].enclosing = frames[t].enclosing
            /\ last'.name \in DOMAIN frames[t].values
                  => /\ last'.result.kind = "Ok"
                     /\ frames'[t].values[last'.name] = last'.value]_vars

\* C3: assign(name, value) never creates a binding: when no frame of the chain
\* binds the name it returns UnknownVariable and every frame's map is what it
\* was before the call.
C3_AssignNeverCreates ==
    [][last'.op = "assign"
       => /\ Len(frames') = Len(frames)
          /\ \A g \in Frames :
                DOMAIN frames'[g].values = DOMAIN frames[g].values
          /\ Innermost(frames, last'.frame, last'.name) = None
                => /\ last'.result = UnknownVariable
                   /\ frames' = frames]_vars

\* assign fell off a chain of two frames or more whose other name is bound
C3_Witness ==
    /\ last.op = "assign"
    /\ last.result = UnknownVariable
    /\ frames[last.frame].enclosing # None
    /\ \E g \in Frames : DOMAIN frames[g].values # {}

\* C4: get(name) returns the value bound in the innermost frame of the chain
\* that binds the name, and UnknownVariable exactly when no frame binds it.
C4_GetInnermost ==
    last.op = "get"
        => IF Innermost(frames, last.frame, last.name) = None
           THEN last.result = UnknownVariable
           ELSE last.result =
                   OkResult(frames[Innermost(frames, last.frame, last.name)]
                               .values[last.name])

\* get found the name in an enclosing frame that shadows a different value
\* bound further out
C4_Witness ==
    /\ last.op = "get"
    /\ last.result.kind = "Ok"
    /\ Innermost(frames, last.frame, last.name) # last.frame
    /\ \E d \in DefiningDistances(frames, last.frame, last.name) :
          frames[Hops(frames, last.frame, d)].values[last.name]
             # last.result.value

\* C5: define(name, value) is an idempotent insert-or-replace on the current
\* frame only: afterwards the frame maps name to value whether or not it was
\* bound before, a second identical define changes nothing, and no other
\* binding and no other frame is modified.
C5_DefineInsertOrReplace ==
    [][last'.op = "define"
       => /\ Len(frames') = Len(frames)
          /\ \A g \in Frames : g # last'.frame => frames'[g] = frames[g]
          /\ frames'[last'.frame].enclosing = frames[last'.frame].enclosing
          /\ DOMAIN frames'[last'.frame].values
                = DOMAIN frames[last'.frame].values \cup {last'.name}
          /\ frames'[last'.frame].values[last'.name] = last'.value
          /\ \A n \in DOMAIN frames[last'.frame].values :
                n # last'.name
                   => frames'[last'.frame].values[n] = frames[last'.frame].values[n]
          /\ define(frames', last'.frame, last'.name, last'.value) = frames']_vars

\* define bound a name that the enclosing frame binds to another value
C5_Witness ==
    /\ last.op = "define"
    /\ frames[last.frame].enclosing # None
    /\ last.name \in DOMAIN frames[frames[last.frame].enclosing].values
    /\ frames[frames[last.frame].enclosing].values[last.name] # last.value
    /\ frames[last.frame].values[last.name] = last.value

\* The number of enclosing frames of f
Depth(fs, f) ==
    CHOOSE d \in 0..(Len(fs) - 1) :
        Hops(fs, f, d) # None /\ fs[Hops(fs, f, d)].enclosing = None

\* The last operation has called Environment::ancestor with its distance
AncestorCalled ==
    \/ last.op = "assign_at"
    \/ last.op = "get_at" /\ last.distance > 0

\* C23: ancestor(depth) returns the frame reached by exactly `depth`
\* enclosing hops from the frame it is called on, for every depth from 0 up
\* to the number of enclosing frames, and does not panic for such a depth.
C23_AncestorExactHops ==
    (AncestorCalled /\ last.distance <= Depth(frames, last.frame))
        => ancestor(frames, last.frame, last.distance)
              = Hops(frames, last.frame, last.distance)

\* Following the enclosing links from f never revisits a frame and ends at
\* the frame that Environment::new has made
EndsAtRoot(fs, f) ==
    /\ \E d \in 0..(Len(fs) - 1) :
          /\ Hops(fs, f, d) = 1
          /\ fs[1].enclosing = None
    /\ \A d \in 0..(Len(fs) - 1), e \in 0..(Len(fs) - 1) :
          (d < e /\ Hops(fs, f, e) # None) => Hops(fs, f, d) # Hops(fs, f, e)

\* C24: after any sequence of Environment operations the frames form a tree
\* rooted at a frame with no enclosing frame: the enclosing link of a frame
\* is a frame that existed when it was created and never changes, so
\* following enclosing links from any frame never revisits a frame and ends
\* at the root.
C24_FramesFormTree ==
    /\ [](\A f \in Frames : EndsAtRoot(frames, f))
    /\ [][/\ \A f \in Frames : frames'[f].enclosing = frames[f].enclosing
          /\ \A g \in (1..Len(frames')) \ Frames :
                /\ frames'[g].enclosing \in Frames
                /\ last'.op = "from_enclosing"]_vars

\* an assignment through two enclosing links has run on a chain of three
\* frames, beside a lookup-free build of the tree
C24_Witness ==
    /\ last.op = "assign_at"
    /\ last.result.kind = "Ok"
    /\ last.distance = 2
    /\ Depth(frames, last.frame) = 2

\* C26: get_at and assign_at address the same frame for the same depth:
\* whenever assign_at(d, name, v) succeeds on a frame, an immediately
\* following get_at(d, name) on the same frame returns v, for every d >= 0.
C26_GetAtAfterAssignAt ==
    (last.op = "assign_at" /\ last.result.kind = "Ok")
        => get_at(frames, last.frame, last.distance, last.name)
              = OkResult(last.value)

\* C30: a successful assign(name, value) changes exactly one binding: the
\* binding of name in the innermost frame, counting from the current frame
\* outward, that already defines it; every other name in that frame and
\* every other frame of the chain, outer frames that define name too, is
\* unchanged.
C30_AssignChangesOneBinding ==
    [][(last'.op = "assign" /\ last'.result.kind = "Ok")
       => /\ Innermost(frames, last'.frame, last'.name) # None
          /\ Len(frames') = Len(frames)
          /\ \A g \in Frames :
                /\ frames'[g].enclosing = frames[g].enclosing
                /\ DOMAIN frames'[g].values = DOMAIN frames[g].values
                /\ \A n \in DOMAIN frames[g].values :
                      frames'[g].values[n] =
                         IF g = Innermost(frames, last'.frame, last'.name)
                            /\ n = last'.name
                         THEN last'.value
                         ELSE frames[g].values[n]]_vars

\* assign has rebound a name that a frame further out binds too, to another
\* value than the outer one, from a frame that does not bind it itself
C30_Witness ==
    /\ last.op = "assign"
    /\ last.result.kind = "Ok"
    /\ Innermost(frames, last.frame, last.name) # last.frame
    /\ \E d \in DefiningDistances(frames, last.frame, last.name) :
          /\ Hops(frames, last.frame, d)
                # Innermost(frames, last.frame, last.name)
          /\ frames[Hops(frames, last.frame, d)].values[last.name]
                # last.value
    /\ frames[Innermost(frames, last.frame, last.name)].values[last.name]
          = last.value

-----------------------------------------------------------------------------
(* The evaluator's executeBlock: a scoped swap of the current-environment  *)
(* slot (Interpreter.environment).                                         *)

\* The record executeBlock keeps while the statements of a block run
SavedEnv(previous, env, call) ==
    [previous |-> previous, env |-> env, call |-> call]

\* executeBlock that restores the slot on normal completion and on `return`
\* but leaves the block's environment in place when an error unwinds
restore_unless_error(top, path) ==
    IF path = "error" THEN top.env ELSE top.previous

\* executeBlock, on exit: the value put back into the slot on the exit path
\* `path` (normal completion, runtime error, `return` signal)
restore(top, path) == top.previous

Exit(path, top, after) ==
    [path |-> path, entry |-> top.previous, after |-> after, block |-> top.env]

BlockInit ==
    /\ frames = <<new>>
    /\ last = Op("new", 1, 0, "-", 0, OkResult(0))
    /\ EnvIdle
    /\ ParserIdle
    /\ InterpreterIdle
    /\ ScannerIdle

\* A Block statement: executeBlock(statements, a fresh child of the current
\* environment)
EnterBlock ==
    /\ signal = "none"
    /\ Len(frames) < MaxFrames
    /\ frames' = Append(frames, from_enclosing(environment))
    /\ saved' = Append(saved, SavedEnv(environment, Len(frames) + 1, FALSE))
    /\ environment' = Len(frames) + 1
    /\ UNCHANGED <<last, signal, lastExit, parserVars,
                 interpreterVars, scannerVars, resolveResult>>

\* A call of a user function: executeBlock(body, a fresh child of the
\* function's closure environment, which need not be the caller's)
EnterCall ==
    /\ signal = "none"
    /\ Len(frames) < MaxFrames
    /\ \E closure \in Frames :
          /\ frames' = Append(frames, from_enclosing(closure))
          /\ saved' = Append(saved, SavedEnv(environment, Len(frames) + 1, TRUE))
          /\ environment' = Len(frames) + 1
    /\ UNCHANGED <<last, signal, lastExit, parserVars,
                 interpreterVars, scannerVars, resolveResult>>

\* A Var statement: define into the current frame
ExecVar ==
    /\ signal = "none"
    /\ \E name \in Names, obj \in Values :
          /\ Bindings(define(frames, environment, name, obj), Len(frames))
                <= MaxBindings
          /\ frames' = define(frames, environment, name, obj)
    /\ UNCHANGED <<last, blockVars, parserVars,
                 interpreterVars, scannerVars, resolveResult>>

\* A statement raises a runtime error
RaiseError ==
    /\ signal = "none"
    /\ signal' = "error"
    /\ UNCHANGED <<frames, last, environment, saved, lastExit, parserVars,
                 interpreterVars, scannerVars, resolveResult>>

\* A Return statement inside a function body emits the `return` signal
RaiseReturn ==
    /\ signal = "none"
    /\ \E i \in 1..Len(saved) : saved[i].call
    /\ signal' = "return"
    /\ UNCHANGED <<frames, last, environment, saved, lastExit, parserVars,
                 interpreterVars, scannerVars, resolveResult>>

\* executeBlock returns after the last statement of the block
ExitNormal ==
    /\ signal = "none"
    /\ saved # <<>>
    /\ environment' = restore(saved[Len(saved)], "normal")
    /\ lastExit' = Exit("normal", saved[Len(saved)], environment')
    /\ saved' = SubSeq(saved, 1, Len(saved) - 1)
    /\ UNCHANGED <<frames, last, signal, parserVars,
                 interpreterVars, scannerVars, resolveResult>>

\* executeBlock returns because a runtime error propagates out of the block
ExitError ==
    /\ signal = "error"
    /\ saved # <<>>
    /\ environment' = restore(saved[Len(saved)], "error")
    /\ lastExit' = Exit("error", saved[Len(saved)], environment')
    /\ saved' = SubSeq(saved, 1, Len(saved) - 1)
    /\ UNCHANGED <<frames, last, signal, parserVars,
                 interpreterVars, scannerVars, resolveResult>>

\* executeBlock returns because a `return` signal propagates out of the block;
\* the function call that ran the body catches the signal
ExitReturn ==
    /\ signal = "return"
    /\ saved # <<>>
    /\ environment' = restore(saved[Len(saved)], "return")
    /\ lastExit' = Exit("return", saved[Len(saved)], environment')
    /\ saved' = SubSeq(saved, 1, Len(saved) - 1)
    /\ signal' = IF saved[Len(saved)].call THEN "none" ELSE "return"
    /\ UNCHANGED <<frames, last, parserVars,
                 interpreterVars, scannerVars, resolveResult>>

BlockNext ==
    \/ EnterBlock
    \/ EnterCall
    \/ ExecVar
    \/ RaiseError
    \/ RaiseReturn
    \/ ExitNormal
    \/ ExitError
    \/ ExitReturn

BlockSpec == BlockInit /\ [][BlockNext]_vars

\* C6: for every block execution the current-environment slot on exit from
\* executeBlock equals its value on entry, on normal completion, when a
\* runtime error is raised inside the block and when a `return` signal
\* propagates out of it.
C6_BlockRestoresEnvironment ==
    [][Len(saved') < Len(saved)
       => /\ lastExit'.path \in {"normal", "error", "return"}
          /\ environment' = saved[Len(saved)].previous
          /\ Len(saved') = Len(saved) - 1]_vars

\* an error unwound out of a function body whose environment is not a child of
\* the environment the slot held on entry
C6_Witness ==
    /\ lastExit.path = "error"
    /\ lastExit.after = lastExit.entry
    /\ environment = lastExit.entry
    /\ frames[lastExit.block].enclosing # lastExit.entry

-----------------------------------------------------------------------------
(* src/src/parser.rs: tokens, results and the cursor primitives *)

\* Tokens are modelled by their TokenType; a token of the input is named by
\* its index in Parser.tokens (counted from 0, as `current` is).

\* Expr and Stmt nodes
Literal(value, at) == [kind |-> "Literal", value |-> value, token |-> at]
Grouping(e) == [kind |-> "Grouping", expression |-> e]
Unary(op, r) == [kind |-> "Unary", operator |-> op, right |-> r]
Binary(l, op, r) == [kind |-> "Binary", left |-> l, operator |-> op, right |-> r]
Logical(l, op, r) == [kind |-> "Logical", left |-> l, operator |-> op, right |-> r]
Variable(name) == [kind |-> "Variable", name |-> name]
Assign(name, v) == [kind |-> "Assign", name |-> name, value |-> v]
Call(callee, paren, args) ==
    [kind |-> "Call", callee |-> callee, paren |-> paren, arguments |-> args]

ExpressionStmt(e) == [kind |-> "Expression", expression |-> e]
PrintStmt(e) == [kind |-> "Print", expression |-> e]
VarStmt(name, init) == [kind |-> "Var", name |-> name, initializer |-> init]
BlockStmt(stmts) == [kind |-> "Block", statements |-> stmts]
IfStmt(c, t, e) ==
    [kind |-> "If", condition |-> c, then_branch |-> t, else_branch |-> e]
WhileStmt(c, b) == [kind |-> "While", condition |-> c, body |-> b]
FunctionStmt(name, params, body) ==
    [kind |-> "Function", name |-> name, params |-> params, body |-> body]
ReturnStmt(keyword, v) == [kind |-> "Return", keyword |-> keyword, value |-> v]

\* Option::None where an Expr or Stmt is optional
NoNode == [kind |-> "None"]
\* A Token returned by consume
TokenNode(at) == [kind |-> "Token", token |-> at]
\* The Vec<Stmt> returned by block_statement
StmtList(stmts) == [kind |-> "StmtList", statements |-> stmts]

\* LoxResult::Parser
ParserError(error_type, token, msg) ==
    [error_type |-> error_type, token |-> token, msg |-> msg]
NoError == ParserError("none", -1, "")

\* Result<_, LoxResult> of a parsing method, with the value of `current` when
\* it returns and the errors Parser::declaration printed while it ran
POk(node, cur, errs) ==
    [st |-> "ok", node |-> node, cur |-> cur, err |-> NoError, errs |-> errs]
PErr(err, cur, errs) ==
    [st |-> "err", node |-> NoNode, cur |-> cur, err |-> err, errs |-> errs]

\* r, run after errs had been printed
After(errs, r) == [r EXCEPT !.errs = errs \o @]

\* One error printed by Parser::declaration: the error, `current` when it was
\* caught and `current` when synchronize returned
Report(err, from, to) == [err |-> err, from |-> from, to |-> to]

\* Parser::peek, as the TokenType of the token
peek(c) == tokens[c + 1]

\* Parser::previous, as the index of the token
previous(c) == c - 1

\* Parser::is_at_end
is_at_end(c) == peek(c) = "Eof"

\* Parser::check
check(c, ttype) == IF is_at_end(c) THEN FALSE ELSE peek(c) = ttype

\* Parser::advance, as the new value of `current`
advance(c) == IF ~is_at_end(c) THEN c + 1 ELSE c

\* Parser::matchs_next: whether it returns true; `current` is then advance(c)
matchs_next(c, types) == \E ttype \in types : check(c, ttype)

\* Parser::consume
consume(c, ttype, msg) ==
    IF check(c, ttype)
    THEN POk(TokenNode(previous(advance(c))), advance(c), <<>>)
    ELSE PErr(ParserError("InvalidConsumeType", c, msg), c, <<>>)

\* The `while` loop of Parser::synchronize
RECURSIVE synchronize_loop(_)
synchronize_loop(c) ==
    IF is_at_end(c) THEN c
    ELSE IF peek(previous(c)) = "Semicolon" THEN c
         ELSE synchronize_loop(advance(c))

\* Parser::synchronize, as the new value of `current`
synchronize(c) == synchronize_loop(advance(c))

\* The cap on call arguments and function parameters
MaxArgNumber == 255

-----------------------------------------------------------------------------
(* src/src/parser.rs: expressions *)

\* The `?` operator: an Err is returned at once, an Ok value is handed to the
\* rest of the method
Try(r, rest(_)) == IF r.st # "ok" THEN r ELSE After(r.errs, rest(r))

RECURSIVE assignment(_), finish_call_turns(_, _), unary(_)

\* Parser::expression
expression(c) == assignment(c)

\* Parser::primary
primary(c) ==
    IF matchs_next(c, {"False"}) THEN POk(Literal("False", -1), advance(c), <<>>)
    ELSE IF matchs_next(c, {"True"}) THEN POk(Literal("True", -1), advance(c), <<>>)
    ELSE IF matchs_next(c, {"Nil"}) THEN POk(Literal("Nil", -1), advance(c), <<>>)
    ELSE IF matchs_next(c, {"Number", "String"})
    THEN POk(Literal(peek(previous(advance(c))), previous(advance(c))),
             advance(c), <<>>)
    ELSE IF matchs_next(c, {"Identifier"})
    THEN POk(Variable(previous(advance(c))), advance(c), <<>>)
    ELSE IF matchs_next(c, {"LeftParen"})
    THEN Try(expression(advance(c)), LAMBDA expr :
         Try(consume(expr.cur, "RightParen", "Expected ')' after expression."),
             LAMBDA close : POk(Grouping(expr.node), close.cur, <<>>)))
    ELSE PErr(ParserError("ExpectedExpression", c, ""), c, <<>>)

\* A `loop` that is still running, with the list it has built so far
PLoop(list, c) == [POk(StmtList(list), c, <<>>) EXCEPT !.st = "loop"]

\* The argument loop of Parser::finish_call, after `self.expression()`
finish_call_push(arguments, arg) ==
    IF arg.st # "ok" THEN arg
    ELSE IF matchs_next(arg.cur, {"Comma"})
    THEN PLoop(Append(arguments, arg.node), advance(arg.cur))
    ELSE POk(StmtList(Append(arguments, arg.node)), arg.cur, <<>>)

\* One turn of the argument loop of Parser::finish_call
finish_call_turn(s) ==
    IF Len(s.node.statements) >= MaxArgNumber
    THEN PErr(ParserError("MaxArgNumber", s.cur, ""), s.cur, <<>>)
    ELSE finish_call_push(s.node.statements, expression(s.cur))

\* Up to k turns of the argument loop, the first half of them and then the
\* rest: the loop ends when a turn breaks or returns
finish_call_turns(s, k) ==
    IF s.st # "loop" \/ k = 0 THEN s
    ELSE IF k = 1 THEN finish_call_turn(s)
    ELSE finish_call_turns(finish_call_turns(s, k \div 2), k - (k \div 2))

\* The argument loop of Parser::finish_call; a turn that does not end the
\* loop consumes a token, so there are no more turns than tokens
finish_call_loop(c) == finish_call_turns(PLoop(<<>>, c), Len(tokens) - c)

\* Parser::finish_call
finish_call(callee, c) ==
    Try(IF ~check(c, "RightParen")
        THEN finish_call_loop(c)
        ELSE POk(StmtList(<<>>), c, <<>>), LAMBDA arguments :
    Try(consume(arguments.cur, "RightParen",
                "Expected closing ')' after argument list."), LAMBDA paren :
    POk(Call(callee, paren.node.token, arguments.node.statements),
        paren.cur, <<>>)))

\* The loop of Parser::call
RECURSIVE call_loop(_, _)
call_loop(expr, c) ==
    IF matchs_next(c, {"LeftParen"})
    THEN Try(finish_call(expr, advance(c)), LAMBDA r : call_loop(r.node, r.cur))
    ELSE POk(expr, c, <<>>)

\* Parser::call
call(c) == Try(primary(c), LAMBDA expr : call_loop(expr.node, expr.cur))

\* Parser::unary
unary(c) ==
    IF matchs_next(c, {"Bang", "Minus"})
    THEN Try(unary(advance(c)), LAMBDA right :
             POk(Unary(previous(advance(c)), right.node), right.cur, <<>>))
    ELSE call(c)

\* The `while` loop of Parser::factor
RECURSIVE factor_loop(_, _)

\* a loop that nests a chain of `*` and `/` to the right
factor_loop_nests_right(expr, c) ==
    IF matchs_next(c, {"Slash", "Star"})
    THEN Try(unary(advance(c)), LAMBDA right :
         Try(factor_loop(right.node, right.cur), LAMBDA rest :
             POk(Binary(expr, previous(advance(c)), rest.node), rest.cur, <<>>)))
    ELSE POk(expr, c, <<>>)

factor_loop(expr, c) ==
    IF matchs_next(c, {"Slash", "Star"})
    THEN Try(unary(advance(c)), LAMBDA right :
             factor_loop(Binary(expr, previous(advance(c)), right.node),
                         right.cur))
    ELSE POk(expr, c, <<>>)

\* Parser::factor
factor(c) == Try(unary(c), LAMBDA expr : factor_loop(expr.node, expr.cur))

\* The `while` loop of Parser::term
RECURSIVE term_loop(_, _)
term_loop(expr, c) ==
    IF matchs_next(c, {"Minus", "Plus"})
    THEN Try(factor(advance(c)), LAMBDA right :
             term_loop(Binary(expr, previous(advance(c)), right.node),
                       right.cur))
    ELSE POk(expr, c, <<>>)

\* Parser::term
term(c) == Try(factor(c), LAMBDA expr : term_loop(expr.node, expr.cur))

\* The `while` loop of Parser::comparison
RECURSIVE comparison_loop(_, _)
comparison_loop(expr, c) ==
    IF matchs_next(c, {"Greater", "GreaterEqual", "Less", "LessEqual"})
    THEN Try(term(advance(c)), LAMBDA right :
             comparison_loop(Binary(expr, previous(advance(c)), right.node),
                             right.cur))
    ELSE POk(expr, c, <<>>)

\* Parser::comparison
comparison(c) ==
    Try(term(c), LAMBDA expr : comparison_loop(expr.node, expr.cur))

\* The `while` loop of Parser::equality
RECURSIVE equality_loop(_, _)
equality_loop(expr, c) ==
    IF matchs_next(c, {"BangEqual", "EqualEqual"})
    THEN Try(comparison(advance(c)), LAMBDA right :
             equality_loop(Binary(expr, previous(advance(c)), right.node),
                           right.cur))
    ELSE POk(expr, c, <<>>)

\* Parser::equality
equality(c) ==
    Try(comparison(c), LAMBDA expr : equality_loop(expr.node, expr.cur))

\* The `while` loop of Parser::and
RECURSIVE and_loop(_, _)
and_loop(expr, c) ==
    IF matchs_next(c, {"And"})
    THEN Try(equality(advance(c)), LAMBDA right :
             and_loop(Logical(expr, previous(advance(c)), right.node),
                      right.cur))
    ELSE POk(expr, c, <<>>)

\* Parser::and
and(c) == Try(equality(c), LAMBDA expr : and_loop(expr.node, expr.cur))

\* The `while` loop of Parser::or
RECURSIVE or_loop(_, _)
or_loop(expr, c) ==
    IF matchs_next(c, {"Or"})
    THEN Try(and(advance(c)), LAMBDA right :
             or_loop(Logical(expr, previous(advance(c)), right.node),
                     right.cur))
    ELSE POk(expr, c, <<>>)

\* Parser::or
or(c) == Try(and(c), LAMBDA expr : or_loop(expr.node, expr.cur))

\* Parser::assignment
assignment(c) ==
    Try(or(c), LAMBDA expr :
        IF matchs_next(expr.cur, {"Equal"})
        THEN Try(assignment(advance(expr.cur)), LAMBDA value :
                 IF expr.node.kind = "Variable"
                 THEN POk(Assign(expr.node.name, value.node), value.cur, <<>>)
                 ELSE PErr(ParserError("InvalidAssignTarget",
                                       previous(advance(expr.cur)), ""),
                           value.cur, <<>>))
        ELSE POk(expr.node, expr.cur, <<>>))

-----------------------------------------------------------------------------
(* src/src/parser.rs: statements and declarations *)

RECURSIVE statement(_), declaration(_)

\* Parser::expression_statement
expression_statement(c) ==
    Try(expression(c), LAMBDA expr :
    Try(consume(expr.cur, "Semicolon", "Expected ';' after expression."),
        LAMBDA semi : POk(ExpressionStmt(expr.node), semi.cur, <<>>)))

\* Parser::print_statement
print_statement(c) ==
    Try(expression(c), LAMBDA value :
    Try(consume(value.cur, "Semicolon", "Expected ';' after value."),
        LAMBDA semi : POk(PrintStmt(value.node), semi.cur, <<>>)))

\* Parser::return_statement
return_statement(c) ==
    Try(IF ~check(c, "Semicolon") THEN expression(c) ELSE POk(NoNode, c, <<>>),
        LAMBDA value :
    Try(consume(value.cur, "Semicolon", "Expected ';' after return statement."),
        LAMBDA semi : POk(ReturnStmt(previous(c), value.node), semi.cur, <<>>)))

\* Parser::var_declaration
var_declaration(c) ==
    Try(consume(c, "Identifier", "Expected variable name."), LAMBDA name :
    Try(IF matchs_next(name.cur, {"Equal"})
        THEN expression(advance(name.cur))
        ELSE POk(NoNode, name.cur, <<>>), LAMBDA initializer :
    Try(consume(initializer.cur, "Semicolon",
                "Expected ';' after variable declaration."), LAMBDA semi :
    POk(VarStmt(name.node.token, initializer.node), semi.cur, <<>>))))

\* Parser::while_statement
while_statement(c) ==
    Try(consume(c, "LeftParen", "Expected '(' after while statement."),
        LAMBDA open :
    Try(expression(open.cur), LAMBDA condition :
    Try(consume(condition.cur, "LeftParen",
                "Expected closing ')' after while statement."), LAMBDA close :
    Try(statement(close.cur), LAMBDA body :
    POk(WhileStmt(condition.node, body.node), body.cur, <<>>)))))

\* Parser::if_statement
if_statement(c) ==
    Try(consume(c, "LeftParen", "Expected '(' after 'if' statement."),
        LAMBDA open :
    Try(expression(open.cur), LAMBDA condition :
    Try(consume(condition.cur, "RightParen",
                "Missing closing ')' after if condition."), LAMBDA close :
    Try(statement(close.cur), LAMBDA then_branch :
    IF matchs_next(then_branch.cur, {"Else"})
    THEN Try(statement(advance(then_branch.cur)), LAMBDA else_branch :
             POk(IfStmt(condition.node, then_branch.node, else_branch.node),
                 else_branch.cur, <<>>))
    ELSE POk(IfStmt(condition.node, then_branch.node, NoNode),
             then_branch.cur, <<>>)))))

\* the lowering with the increment run before the body
for_lower_increment_first(initializer, condition, increment, body) ==
    LET looped == IF increment.kind # "None"
                  THEN BlockStmt(<<ExpressionStmt(increment), body>>)
                  ELSE body
        cond == IF condition.kind = "None" THEN Literal("True", -1) ELSE condition
        loop == WhileStmt(cond, looped) IN
    IF initializer.kind # "None" THEN BlockStmt(<<initializer, loop>>) ELSE loop

\* Parser::for_statement, from the parsed clauses and body to the statement
\* returned
for_lower(initializer, condition, increment, body) ==
    LET looped == IF increment.kind # "None"
                  THEN BlockStmt(<<body, ExpressionStmt(increment)>>)
                  ELSE body
        cond == IF condition.kind = "None" THEN Literal("True", -1) ELSE condition
        loop == WhileStmt(cond, looped) IN
    IF initializer.kind # "None" THEN BlockStmt(<<initializer, loop>>) ELSE loop

\* Parser::for_statement
for_statement(c) ==
    Try(consume(c, "LeftParen", "Expected opening '(' after 'for' statement."),
        LAMBDA open :
    Try(IF matchs_next(open.cur, {"Semicolon"})
        THEN POk(NoNode, advance(open.cur), <<>>)
        ELSE IF matchs_next(open.cur, {"Var"})
             THEN var_declaration(advance(open.cur))
             ELSE expression_statement(open.cur), LAMBDA initializer :
    Try(IF ~check(initializer.cur, "Semicolon")
        THEN expression(initializer.cur)
        ELSE POk(NoNode, initializer.cur, <<>>), LAMBDA condition :
    Try(consume(condition.cur, "Semicolon", "Expected ';' after loop condition."),
        LAMBDA semi :
    Try(IF ~check(semi.cur, "RightParen")
        THEN expression(semi.cur)
        ELSE POk(NoNode, semi.cur, <<>>), LAMBDA increment :
    Try(consume(increment.cur, "RightParen",
                "Expected closing ')' after for statement."), LAMBDA close :
    Try(statement(close.cur), LAMBDA body :
    POk(for_lower(initializer.node, condition.node, increment.node, body.node),
        body.cur, <<>>))))))))

\* a push that drops the statements pushed before
push_some_keeps_last(stmts, node) ==
    IF node.kind # "None" THEN <<node>> ELSE stmts

\* stmts with the Option<Stmt> that declaration returned pushed when it is Some
push_some(stmts, node) ==
    IF node.kind # "None" THEN Append(stmts, node) ELSE stmts

\* The loop of Parser::block_statement and the consume after it
RECURSIVE block_statement_loop(_, _)
block_statement_loop(stmts, c) ==
    IF ~check(c, "RightBrace") /\ ~is_at_end(c)
    THEN Try(declaration(c), LAMBDA d :
             block_statement_loop(push_some(stmts, d.node), d.cur))
    ELSE Try(consume(c, "RightBrace", "Missing scope ending right brace '}'."),
             LAMBDA close : POk(StmtList(stmts), close.cur, <<>>))

\* Parser::block_statement
block_statement(c) == block_statement_loop(<<>>, c)

\* The parameter loop of Parser::function, after `self.consume(..)`
function_params_push(params, param) ==
    IF param.st # "ok" THEN param
    ELSE IF matchs_next(param.cur, {"Comma"})
    THEN PLoop(Append(params, param.node.token), advance(param.cur))
    ELSE POk(StmtList(Append(params, param.node.token)), param.cur, <<>>)

\* One turn of the parameter loop of Parser::function
function_params_turn(s) ==
    IF Len(s.node.statements) >= MaxArgNumber
    THEN PErr(ParserError("MaxArgNumber", s.cur, ""), s.cur, <<>>)
    ELSE function_params_push(
             s.node.statements,
             consume(s.cur, "Identifier", "Expected parameter name here."))

\* Up to k turns of the parameter loop, the first half of them and then the
\* rest
RECURSIVE function_params_turns(_, _)
function_params_turns(s, k) ==
    IF s.st # "loop" \/ k = 0 THEN s
    ELSE IF k = 1 THEN function_params_turn(s)
    ELSE function_params_turns(function_params_turns(s, k \div 2),
                               k - (k \div 2))

\* The parameter loop of Parser::function
function_params_loop(c) ==
    function_params_turns(PLoop(<<>>, c), Len(tokens) - c)

\* Parser::function
function(kind, c) ==
    Try(consume(c, "Identifier", "Expected " \o kind \o " name."), LAMBDA name :
    Try(consume(name.cur, "LeftParen",
                "Expected opening '(' after " \o kind \o " name"), LAMBDA open :
    Try(IF ~check(open.cur, "RightParen")
        THEN function_params_loop(open.cur)
        ELSE POk(StmtList(<<>>), open.cur, <<>>), LAMBDA params :
    Try(consume(params.cur, "RightParen",
                "Expected closing ')' after parameters."), LAMBDA close :
    Try(consume(close.cur, "LeftBrace",
                "Expected '{' before " \o kind \o " body"), LAMBDA brace :
    Try(block_statement(brace.cur), LAMBDA body :
    POk(FunctionStmt(name.node.token, params.node.statements,
                     body.node.statements),
        body.cur, <<>>)))))))

\* Parser::statement
statement(c) ==
    IF matchs_next(c, {"For"}) THEN for_statement(advance(c))
    ELSE IF matchs_next(c, {"If"}) THEN if_statement(advance(c))
    ELSE IF matchs_next(c, {"Print"}) THEN print_statement(advance(c))
    ELSE IF matchs_next(c, {"Return"}) THEN return_statement(advance(c))
    ELSE IF matchs_next(c, {"While"}) THEN while_statement(advance(c))
    ELSE IF matchs_next(c, {"LeftBrace"})
    THEN Try(block_statement(advance(c)), LAMBDA stmts :
             POk(BlockStmt(stmts.node.statements), stmts.cur, <<>>))
    ELSE expression_statement(c)

\* What one `match` of Parser::declaration leaves to the code after it:
\* whether declaration has returned, and the value it returned; else `current`
\* and the errors printed so far
Returned(r) == [returned |-> TRUE, result |-> r]
FellThrough(c, errs) ==
    [returned |-> FALSE, result |-> POk(NoNode, c, errs)]

\* a `match` that prints the error and does not synchronize
declaration_match_without_synchronize(errs, r) ==
    IF r.st = "ok"
    THEN Returned(After(errs, r))
    ELSE FellThrough(r.cur, errs \o r.errs \o <<Report(r.err, r.cur, r.cur)>>)

\* A `match` of Parser::declaration, run after errs had been printed, on the
\* result r of function, var_declaration or statement: return the statement,
\* or print the error and synchronize
declaration_match(errs, r) ==
    IF r.st = "ok"
    THEN Returned(After(errs, r))
    ELSE FellThrough(synchronize(r.cur),
                     errs \o r.errs
                          \o <<Report(r.err, r.cur, synchronize(r.cur))>>)

\* Parser::declaration, `if self.matchs_next(&[TokenType::Fun])`
declaration_fun(c) ==
    IF matchs_next(c, {"Fun"})
    THEN declaration_match(<<>>, function("function", advance(c)))
    ELSE FellThrough(c, <<>>)

\* Parser::declaration, `if self.matchs_next(&[TokenType::Var])`
declaration_var(before) ==
    IF before.returned THEN before
    ELSE IF matchs_next(before.result.cur, {"Var"})
         THEN declaration_match(before.result.errs,
                                var_declaration(advance(before.result.cur)))
         ELSE before

\* Parser::declaration, `match self.statement()` and the final Ok(None)
declaration_statement(before) ==
    IF before.returned THEN before
    ELSE declaration_match(before.result.errs, statement(before.result.cur))

\* Parser::declaration
declaration(c) ==
    declaration_statement(declaration_var(declaration_fun(c))).result

-----------------------------------------------------------------------------
(* Parser::parse as a state machine: one step per turn of its loop *)

MaxLen == 3

\* The token types short inputs are drawn from
Alphabet ==
    {"Identifier", "Number", "Semicolon", "Equal", "LeftParen", "RightParen",
     "LeftBrace", "RightBrace", "Print", "Var", "Fun", "For"}

RECURSIVE SeqsUpTo(_, _)
SeqsUpTo(S, n) ==
    IF n = 0 THEN {<<>>}
    ELSE SeqsUpTo(S, n - 1)
         \cup {Append(q, x) : q \in {r \in SeqsUpTo(S, n - 1) : Len(r) = n - 1},
                              x \in S}

\* Every short token sequence
ShortPrograms == SeqsUpTo(Alphabet, MaxLen)

\* Expressions, statements and clauses of a `for`, as token sequences
SomeExpressions ==
    {<<"Identifier">>, <<"True">>, <<"Identifier", "Less", "Number">>,
     <<"Identifier", "LeftParen", "RightParen">>}
SomeStatements ==
    {<<"Print", "Identifier", "Semicolon">>,
     <<"Identifier", "Equal", "Number", "Semicolon">>,
     <<"LeftBrace", "Print", "Number", "Semicolon", "RightBrace">>}
SomeInitializers ==
    {<<"Semicolon">>,
     <<"Var", "Identifier", "Semicolon">>,
     <<"Var", "Identifier", "Equal", "Number", "Semicolon">>,
     <<"Identifier", "Equal", "Number", "Semicolon">>}
SomeIncrements ==
    {<<>>,
     <<"Identifier", "Equal", "Identifier", "Plus", "Number">>,
     <<"Identifier", "LeftParen", "RightParen">>}
SomeTails == {<<>>, <<"Print", "Number", "Semicolon">>}

\* while "(" expression ")" statement
WhilePrograms ==
    {<<"While", "LeftParen">> \o e \o <<"RightParen">> \o b \o t :
        e \in SomeExpressions, b \in SomeStatements, t \in SomeTails}

\* for "(" initializer condition? ";" increment? ")" statement, the body also an
\* erroneous statement or a `while`
ForPrograms ==
    {<<"For", "LeftParen">> \o i \o e \o <<"Semicolon">> \o n
        \o <<"RightParen">> \o b \o t :
        i \in SomeInitializers, e \in SomeExpressions \cup {<<>>},
        n \in SomeIncrements,
        b \in SomeStatements
              \cup {<<"Semicolon">>,
                    <<"LeftBrace", "RightParen", "Semicolon", "RightBrace">>,
                    <<"While", "LeftParen", "True", "RightParen",
                      "Print", "Number", "Semicolon">>},
        t \in SomeTails}

\* Tokens no declaration starts with, then a declaration that starts with a
\* keyword, with or without a `;` between the two
RecoveryPrograms ==
    {g \o s \o d :
        g \in {<<"RightParen">>, <<"Identifier", "Identifier">>,
               <<"Print", "Equal", "Number">>, <<"Var", "Number">>,
               <<"Fun", "LeftParen">>},
        s \in {<<>>, <<"Semicolon">>},
        d \in {<<"Print", "Number", "Semicolon">>,
               <<"Var", "Identifier", "Semicolon">>,
               <<"Fun", "Identifier", "LeftParen", "RightParen",
                 "LeftBrace", "RightBrace">>,
               <<"Class", "Identifier", "LeftBrace", "RightBrace">>,
               <<"If", "LeftParen", "True", "RightParen", "Print", "Number",
                 "Semicolon">>,
               <<"Return", "Semicolon">>,
               <<"For", "LeftParen", "Semicolon", "Semicolon", "RightParen",
                 "Semicolon">>,
               <<"While", "LeftParen", "True", "RightParen", "Semicolon">>}}

\* The left expressions and the values of `target = value;`
AssignTargets ==
    {<<"Identifier">>, <<"Identifier", "Dot", "Identifier">>, <<"Number">>,
     <<"LeftParen", "Identifier", "RightParen">>,
     <<"Identifier", "LeftParen", "RightParen">>,
     <<"Identifier", "Plus", "Identifier">>}
AssignValues == {<<"Number">>, <<"Identifier">>, <<"Identifier", "Equal", "Nil">>}

\* target "=" value ";"
AssignPrograms ==
    {l \o <<"Equal">> \o v \o <<"Semicolon">> \o t :
        l \in AssignTargets, v \in AssignValues, t \in SomeTails}

\* n entries of a list, with a comma between two entries
CommaList(entry, n) ==
    IF n = 0 THEN <<>>
    ELSE [i \in 1..(2 * n - 1) |-> IF i % 2 = 1 THEN entry ELSE "Comma"]

\* How many entries the long argument and parameter lists have
ListLengths == {MaxArgNumber - 1, MaxArgNumber, MaxArgNumber + 1}

\* A call statement with n arguments
CallWith(n) ==
    <<"Identifier", "LeftParen">> \o CommaList("Number", n)
        \o <<"RightParen", "Semicolon">>

\* A function declaration with n parameters
FunctionWith(n) ==
    <<"Fun", "Identifier", "LeftParen">> \o CommaList("Identifier", n)
        \o <<"RightParen", "LeftBrace", "RightBrace">>

\* Calls and functions whose lists are as long as the cap, or one shorter or
\* longer
LongListPrograms ==
    {CallWith(n) \o t : n \in ListLengths, t \in SomeTails}
        \cup {FunctionWith(n) \o t : n \in ListLengths, t \in SomeTails}

\* The binary operators, and the unary ones
BinaryTokens ==
    {"Or", "And", "BangEqual", "EqualEqual", "Greater", "GreaterEqual", "Less",
     "LessEqual", "Minus", "Plus", "Slash", "Star"}
UnaryTokens == {"Bang", "Minus"}

\* a op b op c ";"
ChainPrograms ==
    {<<"Identifier", first, "Identifier", second, "Identifier", "Semicolon">> :
        first \in BinaryTokens, second \in BinaryTokens}

\* op a op b ";", and a op op b ";"
UnaryPrograms ==
    {<<u, "Identifier", b, "Identifier", "Semicolon">> :
        u \in UnaryTokens, b \in BinaryTokens}
        \cup {<<"Identifier", b, u, "Identifier", "Semicolon">> :
                 u \in UnaryTokens, b \in BinaryTokens}

\* op a "(" ")" ";", and op op a ";"
UnaryCallPrograms ==
    {<<u, "Identifier", "LeftParen", "RightParen", "Semicolon">> :
        u \in UnaryTokens}
UnaryUnaryPrograms ==
    {<<u, v, "Identifier", "Semicolon">> : u \in UnaryTokens, v \in UnaryTokens}

\* a "=" b op c ";", and a "=" b "=" c ";"
AssignChainPrograms ==
    {<<"Identifier", "Equal", "Identifier", b, "Identifier", "Semicolon">> :
        b \in BinaryTokens \cup {"Equal"}}

\* Expressions in which two operators compete for an operand
PrecedencePrograms ==
    ChainPrograms \cup UnaryPrograms \cup UnaryCallPrograms
        \cup UnaryUnaryPrograms \cup AssignChainPrograms

\* The inputs of the parser: token sequences that end with the Eof token
Programs ==
    {q \o <<"Eof">> :
        q \in ShortPrograms \cup WhilePrograms \cup ForPrograms
              \cup RecoveryPrograms \cup AssignPrograms
              \cup LongListPrograms \cup PrecedencePrograms}

ParserInit ==
    /\ tokens \in Programs
    /\ current = 0
    /\ statements = <<>>
    /\ reported = <<>>
    /\ parseResult = [st |-> "none"]
    /\ frames = <<new>>
    /\ last = Op("new", 1, 0, "-", 0, OkResult(0))
    /\ EnvIdle
    /\ InterpreterIdle
    /\ ScannerIdle

\* The `match self.declaration()` of Parser::parse on the result d
ParseMatch(d) ==
    /\ current' = d.cur
    /\ reported' = reported \o d.errs
    /\ IF d.st = "ok"
       THEN /\ statements' = push_some(statements, d.node)
            /\ UNCHANGED parseResult
       ELSE /\ parseResult' = [st |-> "err", err |-> d.err]
            /\ UNCHANGED statements

\* A loop that calls declaration at the Eof token too
ParseDeclaration_at_end ==
    /\ parseResult.st = "none"
    /\ ParseMatch(declaration(current))
    /\ UNCHANGED <<tokens, envVars, blockVars,
                 interpreterVars, scannerVars, resolveResult>>

\* One turn of the loop of Parser::parse
ParseDeclaration ==
    /\ parseResult.st = "none"
    /\ ~is_at_end(current)
    /\ ParseMatch(declaration(current))
    /\ UNCHANGED <<tokens, envVars, blockVars,
                 interpreterVars, scannerVars, resolveResult>>

\* Parser::parse leaves its loop and returns the statements
ParseReturn ==
    /\ parseResult.st = "none"
    /\ is_at_end(current)
    /\ parseResult' = [st |-> "ok", statements |-> statements]
    /\ UNCHANGED <<tokens, current, statements, reported, envVars, blockVars,
                 interpreterVars, scannerVars, resolveResult>>

ParserNext ==
    \/ ParseDeclaration
    \/ ParseReturn

ParserSpec == ParserInit /\ [][ParserNext]_vars

\* Parser::parse runs its loop until it returns: while `!self.is_at_end()`
\* holds it takes another turn, and once the loop is left it returns
ParserLiveSpec ==
    /\ ParserSpec
    /\ WF_vars(ParseReturn)
    /\ \/ []<>(is_at_end(current) \/ parseResult.st # "none")
       \/ []<><<ParseDeclaration>>_vars

-----------------------------------------------------------------------------
(* Properties of the parser *)

\* C7: the parser accepts `while` `(` expression `)` statement, with a
\* RightParen closing the condition, and yields a While node without
\* reporting a parser error.
C7_WhileAccepted ==
    (tokens \in {q \o <<"Eof">> : q \in WhilePrograms} /\ current > 0)
        => /\ reported = <<>>
           /\ Len(statements) >= 1
           /\ statements[1].kind = "While"

\* The keywords a declaration or statement starts with
Keywords == {"Class", "Fun", "Var", "For", "If", "While", "Print", "Return"}

\* Where discarding tokens from c on stops, when it stops as soon as the token
\* just consumed is `;` or the next token is a keyword
RECURSIVE StopAtBoundary(_)
StopAtBoundary(c) ==
    IF is_at_end(c) \/ peek(c - 1) = "Semicolon" \/ peek(c) \in Keywords
    THEN c
    ELSE StopAtBoundary(c + 1)

\* C8: after a parser error at declaration level, synchronize discards tokens
\* and stops as soon as the token just consumed is `;` or the next token is
\* one of class, fun, var, for, if, while, print, return, so a declaration
\* that starts with such a keyword and follows the erroneous tokens without a
\* `;` between is not discarded.
C8_SynchronizeStopsAtKeyword ==
    \A i \in 1..Len(reported) :
        reported[i].to = StopAtBoundary(advance(reported[i].from))

\* C9: if any parser error occurred, the outcome of Parser::parse lets the
\* caller see it: parse never returns plain success with a statement list
\* for an input in which a parser error was raised.
C9_ErrorVisible ==
    (parseResult.st # "none" /\ reported # <<>>) => parseResult.st = "err"

\* The first `;` at or after token c
RECURSIVE FirstSemicolon(_)
FirstSemicolon(c) ==
    IF is_at_end(c) \/ peek(c) = "Semicolon" THEN c ELSE FirstSemicolon(c + 1)

\* The clauses of a `for` that starts the input, read off the tokens: the
\* initialiser starts at token 2 and ends with the first `;`, the condition
\* ends with the next `;`
ForHasInitializer == peek(2) # "Semicolon"
ForConditionAt == FirstSemicolon(2) + 1
ForHasCondition == peek(ForConditionAt) # "Semicolon"
ForIncrementAt == FirstSemicolon(ForConditionAt) + 1
ForHasIncrement == peek(ForIncrementAt) # "RightParen"
ForBodyAt ==
    IF ForHasIncrement THEN expression(ForIncrementAt).cur + 1
    ELSE ForIncrementAt + 1
ForInitializer ==
    IF peek(2) = "Var" THEN var_declaration(3).node
    ELSE expression_statement(2).node
ForCondition ==
    IF ForHasCondition THEN expression(ForConditionAt).node
    ELSE Literal("True", -1)

\* The input starts with a `for` statement that the parser has accepted
ForParsed ==
    /\ tokens[1] = "For"
    /\ for_statement(1).st = "ok"
    /\ Len(statements) >= 1

\* C10 as stated: for every combination of present or absent initialiser,
\* condition and increment the `for` is lowered to
\* Block { init?, While(cond or true, Block { body, incr? }) }.
C10_ForLoweredToNestedBlocks ==
    ForParsed
        => /\ statements[1].kind = "Block"
           /\ LET outer == statements[1].statements IN
                /\ Len(outer) = IF ForHasInitializer THEN 2 ELSE 1
                /\ ForHasInitializer => outer[1] = ForInitializer
                /\ outer[Len(outer)].kind = "While"
                /\ outer[Len(outer)].condition = ForCondition
                /\ outer[Len(outer)].body.kind = "Block"
                /\ outer[Len(outer)].body.statements
                      = IF ForHasIncrement
                        THEN <<statement(ForBodyAt).node,
                               ExpressionStmt(expression(ForIncrementAt).node)>>
                        ELSE <<statement(ForBodyAt).node>>

\* C10, amended: an accepted `for` is lowered to While(cond, or the literal
\* true when there is no condition, B), where B is Block { body, incr } when
\* there is an increment and the body itself when there is none; that While is
\* the statement returned when there is no initialiser and is wrapped as
\* Block { init, While } when there is one.  No For node is produced.
C10_ForLowering ==
    ForParsed
        => /\ statements[1].kind = IF ForHasInitializer THEN "Block" ELSE "While"
           /\ ForHasInitializer
                 => /\ Len(statements[1].statements) = 2
                    /\ statements[1].statements[1] = ForInitializer
           /\ LET loop == IF ForHasInitializer
                          THEN statements[1].statements[2]
                          ELSE statements[1] IN
                /\ loop.kind = "While"
                /\ loop.condition = ForCondition
                /\ loop.body
                      = IF ForHasIncrement
                        THEN BlockStmt(
                                 <<statement(ForBodyAt).node,
                                   ExpressionStmt(expression(ForIncrementAt).node)>>)
                        ELSE statement(ForBodyAt).node

\* a `for` with an increment and neither initialiser nor condition was lowered
C10_Witness ==
    /\ ForParsed
    /\ ~ForHasInitializer
    /\ ~ForHasCondition
    /\ ForHasIncrement
    /\ statements[1].kind = "While"
    /\ statements[1].body.kind = "Block"

\* C11: when an expression is followed by `=`, the parser yields Assign if the
\* left expression is a Variable, yields Set if it is a Get (object "." name),
\* and for every other left expression reports InvalidAssignTarget carrying
\* the `=` token.
C11_AssignTargets ==
    \A l \in AssignTargets, v \in AssignValues, t \in SomeTails :
        (/\ tokens = l \o <<"Equal">> \o v \o <<"Semicolon">> \o t \o <<"Eof">>
         /\ current > 0)
            => IF l = <<"Identifier">>
               THEN /\ reported = <<>>
                    /\ statements[1].kind = "Expression"
                    /\ statements[1].expression.kind = "Assign"
               ELSE IF l = <<"Identifier", "Dot", "Identifier">>
               THEN /\ reported = <<>>
                    /\ Len(statements) >= 1
                    /\ statements[1].kind = "Expression"
                    /\ statements[1].expression.kind = "Set"
               ELSE /\ reported # <<>>
                    /\ reported[1].err.error_type = "InvalidAssignTarget"
                    /\ reported[1].err.token = Len(l)

\* The input is a call or a function declaration with a list of n entries,
\* and the parser has returned
LongListParsed(n) ==
    /\ parseResult.st # "none"
    /\ \E t \in SomeTails :
           tokens \in {CallWith(n) \o t \o <<"Eof">>,
                       FunctionWith(n) \o t \o <<"Eof">>}

\* The first statement is the call or the function of the input, with n
\* arguments or parameters
ListAccepted(n) ==
    /\ Len(statements) >= 1
    /\ \/ /\ statements[1].kind = "Expression"
          /\ statements[1].expression.kind = "Call"
          /\ Len(statements[1].expression.arguments) = n
       \/ /\ statements[1].kind = "Function"
          /\ Len(statements[1].params) = n

\* C12: call arguments and function parameters are each capped at 255: a list
\* of at most 255 entries is accepted, and a longer list reports MaxArgNumber
\* without aborting the parse of that call or function, which is still
\* yielded, parsing continuing from the first unconsumed token.
C12_CapReportsWithoutAbort ==
    \A n \in ListLengths :
        LongListParsed(n)
            => IF n <= MaxArgNumber
               THEN reported = <<>> /\ ListAccepted(n)
               ELSE /\ \E i \in 1..Len(reported) :
                         reported[i].err.error_type = "MaxArgNumber"
                    /\ Len(statements) >= 1
                    /\ statements[1].kind \in {"Expression", "Function"}

\* How tightly an operator binds: the levels of the grammar, from the
\* loosest to the tightest
Level(ttype) ==
    CASE ttype = "Equal" -> 0
      [] ttype = "Or" -> 1
      [] ttype = "And" -> 2
      [] ttype \in {"BangEqual", "EqualEqual"} -> 3
      [] ttype \in {"Greater", "GreaterEqual", "Less", "LessEqual"} -> 4
      [] ttype \in {"Minus", "Plus"} -> 5
      [] ttype \in {"Slash", "Star"} -> 6

\* The node of the binary or logical operator at token `at`
Joined(left, at, right) ==
    IF peek(at) \in {"Or", "And"}
    THEN Logical(left, at, right)
    ELSE Binary(left, at, right)

\* The input is one of a set of programs and its first declaration is parsed
ParsedOneOf(programs) ==
    tokens \in {q \o <<"Eof">> : q \in programs} /\ current > 0

\* The single statement that the input was parsed to, without an error
ParsedTo(expr) == statements = <<ExpressionStmt(expr)>> /\ reported = <<>>

\* C25: the expression parser binds, from loosest to tightest, assignment,
\* or, and, equality, comparison, term, factor, unary, call; a chain of
\* operators of one binary level nests to the left, and chained assignment
\* nests to the right.
C25_PrecedenceAndNesting ==
    /\ ParsedOneOf(ChainPrograms)
          => ParsedTo(IF Level(peek(1)) >= Level(peek(3))
                      THEN Joined(Joined(Variable(0), 1, Variable(2)), 3,
                                  Variable(4))
                      ELSE Joined(Variable(0), 1,
                                  Joined(Variable(2), 3, Variable(4))))
    /\ (ParsedOneOf(UnaryPrograms) /\ peek(0) \in UnaryTokens)
          => ParsedTo(Joined(Unary(0, Variable(1)), 2, Variable(3)))
    /\ (ParsedOneOf(UnaryPrograms) /\ peek(0) \notin UnaryTokens)
          => ParsedTo(Joined(Variable(0), 1, Unary(2, Variable(3))))
    /\ ParsedOneOf(UnaryCallPrograms)
          => ParsedTo(Unary(0, Call(Variable(1), 3, <<>>)))
    /\ ParsedOneOf(UnaryUnaryPrograms)
          => ParsedTo(Unary(0, Unary(1, Variable(2))))
    /\ ParsedOneOf(AssignChainPrograms)
          => ParsedTo(Assign(0, IF peek(3) = "Equal"
                                THEN Assign(2, Variable(4))
                                ELSE Joined(Variable(2), 3, Variable(4))))

\* `a / b * c;` is parsed to `(a / b) * c`
C25_Witness ==
    /\ tokens = <<"Identifier", "Slash", "Identifier", "Star", "Identifier",
                  "Semicolon", "Eof">>
    /\ parseResult.st = "ok"
    /\ Len(statements) = 1
    /\ statements[1].expression.operator = 3
    /\ statements[1].expression.left.kind = "Binary"

\* Token c comes after a `{`: block_statement, and with it a call of
\* declaration that parse does not make itself, runs after a `{` only
InsideBraces(c) == \E b \in 0..(c - 1) : peek(b) = "LeftBrace"

\* Where declaration can be called: at the start of the input or in a block,
\* and not at Eof
DeclarationCalledAt(c) == ~is_at_end(c) /\ (c = 0 \/ InsideBraces(c))

\* C27: Parser::parse terminates on every finite token sequence that ends
\* with an Eof token: each call of declaration made while not at Eof, by
\* parse or in a block, whether it succeeds or fails and synchronizes, leaves
\* the cursor strictly further than it found it, and parse returns.
C27_ParseTerminates ==
    /\ [](\A c \in 0..(Len(tokens) - 1) :
            DeclarationCalledAt(c) => declaration(c).cur > c)
    /\ [][~is_at_end(current) => current' > current]_vars
    /\ <>(parseResult.st # "none")

\* parse has returned after a declaration that failed inside a block and one
\* that failed outside
C27_Witness ==
    /\ parseResult.st # "none"
    /\ Len(reported) >= 2
    /\ \E i \in 1..Len(reported) : InsideBraces(reported[i].from)
    /\ \E i \in 1..Len(reported) : ~InsideBraces(reported[i].from)

\* The index of the Eof token
EofIndex == CHOOSE c \in 0..(Len(tokens) - 1) : is_at_end(c)

\* The least value of `current` at which synchronize, entered at c, evaluates
\* previous(): the call inside its first advance()
synchronize_previous_at(c) == advance(c)

\* C28: while an Eof-terminated token sequence is parsed, `current` never
\* moves past the index of the Eof token, neither in a declaration that
\* succeeds nor between the catch of an error and the return of synchronize,
\* and synchronize evaluates previous() at current >= 1 only, so that every
\* token index read lies within the sequence.
C28_CursorWithinTokens ==
    /\ current \in 0..EofIndex
    /\ \A i \in 1..Len(reported) :
          /\ reported[i].from \in 0..EofIndex
          /\ reported[i].to \in reported[i].from..EofIndex
          /\ synchronize_previous_at(reported[i].from) >= 1
          /\ previous(synchronize_previous_at(reported[i].from))
                \in 0..(Len(tokens) - 1)

\* parse has returned statements, after an error caught with `current` on the
\* Eof token, where the advance() of synchronize does not move
C28_Witness ==
    /\ parseResult.st = "ok"
    /\ Len(statements) >= 1
    /\ current = EofIndex
    /\ \E i \in 1..Len(reported) :
          /\ is_at_end(reported[i].from)
          /\ synchronize_previous_at(reported[i].from) = reported[i].from

-----------------------------------------------------------------------------
(* src/src/token.rs and src/src/interpreter.rs: values and the evaluator *)

\* Object; a Num is modelled by an integer, a Str by a string
Num(x) == [type |-> "Num", num |-> x, str |-> ""]
Str(s) == [type |-> "Str", num |-> 0, str |-> s]
Nil == [type |-> "Nil", num |-> 0, str |-> ""]
True == [type |-> "True", num |-> 0, str |-> ""]
False == [type |-> "False", num |-> 0, str |-> ""]

\* Object::from(bool)
from_bool(b) == IF b THEN True ELSE False

\* impl Display for Object
fmt(obj) ==
    CASE obj.type = "Num" -> ToString(obj.num)
      [] obj.type = "Str" -> "\"" \o obj.str \o "\""
      [] obj.type = "Nil" -> "nil"
      [] obj.type = "True" -> "true"
      [] obj.type = "False" -> "false"

\* Result<Object, ExprError>
EOk(obj) == [st |-> "ok", value |-> obj, err |-> "none"]
EErr(e) == [st |-> "err", value |-> Nil, err |-> e]

\* is_truthy with the number 0 and the empty string falsy too
is_truthy_zero_and_empty_falsy(obj) ==
    ~(obj = Nil \/ obj = False \/ obj = Num(0) \/ obj = Str(""))

\* Interpreter::is_truthy
is_truthy(obj) == ~(obj = Nil \/ obj = False)

\* Interpreter::visit_unary_expr, after `self.evaluate(&expr.right)`
unary_match(operator, right) ==
    IF right.st # "ok" THEN right
    ELSE CASE operator = "Minus" ->
                IF right.value.type = "Num"
                THEN EOk(Num(-right.value.num))
                ELSE EErr("ExpectedNumberOperand")
           [] operator = "Bang" -> EOk(from_bool(~is_truthy(right.value)))
           [] OTHER -> EErr("UnreachableCode")

\* An arm of Interpreter::visit_binary_expr that takes two numbers: value is
\* what it returns for two numbers and error the error for other operands
numbers_arm(left, right, value, error) ==
    IF left.type = "Num" /\ right.type = "Num" THEN EOk(value) ELSE EErr(error)

\* The arm TokenType::Plus with a Number and a String joined as text
plus_joins_number_and_string(left, right) ==
    IF left.type = "Num" /\ right.type = "Num"
    THEN EOk(Num(left.num + right.num))
    ELSE IF left.type = "Str" /\ right.type = "Str"
    THEN EOk(Str(left.str \o right.str))
    ELSE IF left.type = "Num" /\ right.type = "Str"
    THEN EOk(Str(ToString(left.num) \o right.str))
    ELSE EErr("ExpectedAddableOperands")

\* The arm TokenType::Plus of Interpreter::visit_binary_expr
plus(left, right) ==
    IF left.type = "Num" /\ right.type = "Num"
    THEN EOk(Num(left.num + right.num))
    ELSE IF left.type = "Str" /\ right.type = "Str"
    THEN EOk(Str(left.str \o right.str))
    ELSE EErr("ExpectedAddableOperands")

\* The `match expr.operator.ttype` of Interpreter::visit_binary_expr.  The
\* quotient of two Nums is modelled for an exact division only: the inputs
\* have no other.
binary_arms(operator, left, right) ==
    CASE operator = "Minus" ->
            numbers_arm(left, right, Num(left.num - right.num),
                        "InvalidExpression")
      [] operator = "Slash" ->
            numbers_arm(left, right, Num(left.num \div right.num),
                        "InvalidExpression")
      [] operator = "Star" ->
            numbers_arm(left, right, Num(left.num * right.num),
                        "InvalidExpression")
      [] operator = "Plus" -> plus(left, right)
      [] operator = "Greater" ->
            numbers_arm(left, right, from_bool(left.num > right.num),
                        "ExpectedNumberOperands")
      [] operator = "GreaterEqual" ->
            numbers_arm(left, right, from_bool(left.num >= right.num),
                        "ExpectedNumberOperands")
      [] operator = "Less" ->
            numbers_arm(left, right, from_bool(left.num < right.num),
                        "ExpectedNumberOperands")
      [] operator = "LessEqual" ->
            numbers_arm(left, right, from_bool(left.num <= right.num),
                        "ExpectedNumberOperands")
      [] operator = "BangEqual" -> EOk(from_bool(left # right))
      [] operator = "EqualEqual" -> EOk(from_bool(left = right))
      [] OTHER -> EErr("InvalidExpression")

\* Interpreter::visit_binary_expr, after the two `self.evaluate(..)`
binary_match(operator, left, right) ==
    IF left.st # "ok" THEN left
    ELSE IF right.st # "ok" THEN right
    ELSE binary_arms(operator, left.value, right.value)

\* Interpreter::visit_variable_expr, after `self.environment.get(..)`
variable_match(found) ==
    IF found.kind = "Ok" THEN EOk(found.value) ELSE EErr("InvalidExpression")

\* Interpreter::evaluate, with the visit_*_expr method that accept calls
RECURSIVE evaluate(_)
evaluate(expr) ==
    CASE expr.kind = "Literal" -> EOk(expr.value)
      [] expr.kind = "Grouping" -> evaluate(expr.expression)
      [] expr.kind = "Unary" -> unary_match(expr.operator, evaluate(expr.right))
      [] expr.kind = "Binary" ->
            binary_match(expr.operator, evaluate(expr.left), evaluate(expr.right))
      [] expr.kind = "Variable" ->
            variable_match(get(frames, environment, expr.name))

\* What executing one statement did: the Result of its visit method, the
\* Result of the expression it evaluated, and the lines it wrote to stdout and
\* to stderr
Done(st, err, evaluated, stdout, stderr) ==
    [st |-> st, err |-> err, evaluated |-> evaluated,
     stdout |-> stdout, stderr |-> stderr]

\* Interpreter::visit_expression_stmt, after `self.evaluate(..)`
visit_expression_stmt(r) ==
    IF r.st = "err"
    THEN Done("ok", "none", r, <<>>, <<r.err>>)
    ELSE Done("ok", "none", r, <<>>, <<>>)

\* Interpreter::visit_print_stmt, after `self.evaluate(..)`
visit_print_stmt(r) ==
    IF r.st = "ok"
    THEN Done("ok", "none", r, <<fmt(r.value)>>, <<>>)
    ELSE Done("ok", "none", r, <<>>, <<>>)

\* Interpreter::visit_var_stmt, after `self.evaluate(..)` of an initializer:
\* the value is computed and dropped, no Environment method is called
visit_var_stmt(r) ==
    IF r.st = "err"
    THEN Done("err", r.err, r, <<>>, <<>>)
    ELSE Done("ok", "none", r, <<>>, <<>>)

\* Stmt::accept, with the visit_*_stmt method it calls
accept(stmt) ==
    CASE stmt.kind = "Expression" ->
            visit_expression_stmt(evaluate(stmt.expression))
      [] stmt.kind = "Print" -> visit_print_stmt(evaluate(stmt.expression))
      [] stmt.kind = "Var" ->
            visit_var_stmt(IF stmt.initializer.kind # "None"
                           THEN evaluate(stmt.initializer)
                           ELSE EOk(Nil))

\* Interpreter::execute, after `stmt.accept(self)`
execute(d) ==
    IF d.st = "ok" THEN d ELSE [d EXCEPT !.stdout = @ \o <<d.err>>]

-----------------------------------------------------------------------------
(* Interpreter::interpret as a state machine: one step per statement *)

MaxStmts == 2

\* The values of literals
LiteralValues == {Num(0), Num(2), Str(""), Str("a"), Nil, True, False}

\* Literals and variable reads
Atoms ==
    {Literal(v, -1) : v \in LiteralValues} \cup {Variable(n) : n \in Names}

BinaryOperators ==
    {"Minus", "Slash", "Star", "Plus", "Greater", "GreaterEqual", "Less",
     "LessEqual", "BangEqual", "EqualEqual"}

\* A division by the literal 0; every other quotient of the inputs is an
\* integer
Inexact(e) ==
    /\ e.kind = "Binary" /\ e.operator = "Slash"
    /\ e.right.kind = "Literal" /\ e.right.value = Num(0)

\* The expressions statements are made of
Expressions ==
    Atoms
      \cup {Unary(op, a) : op \in {"Minus", "Bang"}, a \in Atoms}
      \cup {Grouping(a) : a \in Atoms}
      \cup {e \in {Binary(l, op, r) : l \in Atoms, op \in BinaryOperators,
                                      r \in Atoms} : ~Inexact(e)}
      \cup {Unary("Bang", Unary("Bang", a)) : a \in Atoms}
      \cup {Binary(Binary(a, "Plus", a), "Plus", a) :
               a \in {Literal(Num(2), -1), Literal(Str("a"), -1)}}

\* Every statement of one expression
Statements ==
    {PrintStmt(e) : e \in Expressions}
      \cup {ExpressionStmt(e) : e \in Expressions}
      \cup {VarStmt(n, e) : n \in Names, e \in Expressions \cup {NoNode}}

\* The statements longer programs are made of: some that raise a runtime
\* error, some that print, some that declare a variable
CoreStatements ==
    {PrintStmt(Literal(Num(2), -1)), PrintStmt(Literal(Str("a"), -1)),
     PrintStmt(Variable("a")),
     PrintStmt(Unary("Minus", Literal(Nil, -1))),
     ExpressionStmt(Binary(Literal(Num(2), -1), "Plus", Literal(Str("a"), -1))),
     VarStmt("a", Literal(Num(2), -1)), VarStmt("a", NoNode),
     VarStmt("a", Unary("Minus", Literal(Str("a"), -1)))}

InterpreterPrograms ==
    {<<x>> : x \in Statements} \cup SeqsUpTo(CoreStatements, MaxStmts)

\* The global frame interpret starts with: empty, or with `b` defined
Globals == {<<new>>, define(<<new>>, 1, "b", Num(2))}

InterpreterInit ==
    /\ program \in InterpreterPrograms
    /\ pc = 0
    /\ executed = <<>>
    /\ frames \in Globals
    /\ last = Op("new", 1, 0, "-", 0, OkResult(0))
    /\ EnvIdle
    /\ ParserIdle
    /\ ScannerIdle

\* One turn of the loop of Interpreter::interpret: `self.execute(statement)`
Execute ==
    /\ pc < Len(program)
    /\ executed' = Append(executed, execute(accept(program[pc + 1])))
    /\ pc' = pc + 1
    /\ UNCHANGED <<program, envVars, blockVars, parserVars, scannerVars,
                   resolveResult>>

InterpreterNext == Execute

InterpreterSpec == InterpreterInit /\ [][InterpreterNext]_vars

-----------------------------------------------------------------------------
(* Properties of the evaluator *)

\* The expression a statement evaluates
ExpressionOf(stmt) ==
    IF stmt.kind = "Var" THEN stmt.initializer ELSE stmt.expression

\* Statement i has been executed and evaluated a unary expression with this
\* operator, whose operand has a value
UnaryExecuted(i, operator) ==
    /\ ExpressionOf(program[i]).kind = "Unary"
    /\ ExpressionOf(program[i]).operator = operator
    /\ evaluate(ExpressionOf(program[i]).right).st = "ok"

\* Statement i has been executed and evaluated a binary expression with one of
\* these operators, whose operands both have a value
BinaryExecuted(i, operators) ==
    /\ ExpressionOf(program[i]).kind = "Binary"
    /\ ExpressionOf(program[i]).operator \in operators
    /\ evaluate(ExpressionOf(program[i]).left).st = "ok"
    /\ evaluate(ExpressionOf(program[i]).right).st = "ok"

\* The values of the operands of the expression of statement i
RightOf(i) == evaluate(ExpressionOf(program[i]).right).value
LeftOf(i) == evaluate(ExpressionOf(program[i]).left).value

\* C13: a runtime error aborts execution immediately: once a statement has
\* raised a runtime error, no later statement of the program is executed and
\* nothing more is printed.
C13_RuntimeErrorAborts ==
    \A i \in 1..Len(executed) :
        executed[i].evaluated.st = "err" => Len(executed) = i

\* C14: executing `var name = init;` at top level defines the name in the
\* global frame with the value of the initialiser (Nil when there is none),
\* so that a later read of the name returns that value.
C14_VarDefinesGlobal ==
    (/\ pc >= 1
     /\ program[pc].kind = "Var"
     /\ executed[pc].st = "ok")
        => /\ get(frames, 1, program[pc].name).kind = "Ok"
           /\ get(frames, 1, program[pc].name).value
                  = executed[pc].evaluated.value

C16_NumericOperandErrors ==
    \A i \in 1..Len(executed) :
        /\ (UnaryExecuted(i, "Minus") /\ RightOf(i).type # "Num")
              => executed[i].evaluated = EErr("ExpectedNumberOperand")
        /\ (/\ BinaryExecuted(i, {"Minus", "Star", "Slash", "Greater",
                                  "GreaterEqual", "Less", "LessEqual"})
            /\ (LeftOf(i).type # "Num" \/ RightOf(i).type # "Num"))
              => executed[i].evaluated = EErr("ExpectedNumberOperands")

\* C17: is_truthy is false exactly for Nil and False and true for every other
\* value, the number 0 and the empty string included; unary `!` returns the
\* boolean negation of that truthiness.
C17_Truthiness ==
    /\ \A v \in LiteralValues : is_truthy(v) <=> v \notin {Nil, False}
    /\ \A i \in 1..Len(executed) :
          UnaryExecuted(i, "Bang")
              => executed[i].evaluated
                     = EOk(IF RightOf(i) \in {Nil, False} THEN True ELSE False)

\* `!` has been applied to the number 0
C17_Witness ==
    /\ Len(executed) = 1
    /\ UnaryExecuted(1, "Bang")
    /\ RightOf(1) = Num(0)
    /\ executed[1].evaluated = EOk(False)

\* What print writes for a value, a String as its contents
Printed(obj) ==
    CASE obj.type = "Str" -> obj.str
      [] obj.type = "Nil" -> "nil"
      [] obj.type = "True" -> "true"
      [] obj.type = "False" -> "false"

\* C18: `print` of a String writes the contents of the string with no
\* surrounding quotes; Nil prints as nil and True and False as true and false.
C18_PrintStringContents ==
    \A i \in 1..Len(executed) :
        (/\ program[i].kind = "Print"
         /\ executed[i].evaluated.st = "ok"
         /\ executed[i].evaluated.value.type # "Num")
            => executed[i].stdout = <<Printed(executed[i].evaluated.value)>>

-----------------------------------------------------------------------------
(* src/src/scanner.rs *)

\* The source is a sequence of characters, each a string of length one; a
\* token is modelled by its TokenType, as in the parser

\* RESERVED_IDENTIFIERS, as pairs of a word and its TokenType
RESERVED_IDENTIFIERS ==
    {<<<<"a", "n", "d">>, "And">>,
     <<<<"c", "l", "a", "s", "s">>, "Class">>,
     <<<<"e", "l", "s", "e">>, "Else">>,
     <<<<"f", "a", "l", "s", "e">>, "False">>,
     <<<<"f", "o", "r">>, "For">>,
     <<<<"f", "u", "n">>, "Fun">>,
     <<<<"i", "f">>, "If">>,
     <<<<"n", "i", "l">>, "Nil">>,
     <<<<"o", "r">>, "Or">>,
     <<<<"p", "r", "i", "n", "t">>, "Print">>,
     <<<<"r", "e", "t", "u", "r", "n">>, "Return">>,
     <<<<"s", "u", "p", "e", "r">>, "Super">>,
     <<<<"t", "h", "i", "s">>, "This">>,
     <<<<"t", "r", "u", "e">>, "True">>,
     <<<<"v", "a", "r">>, "Var">>,
     <<<<"w", "h", "i", "l", "e">>, "While">>}

\* The single character lexemes of Scanner::scan_token
SingleCharacterLexemes ==
    {<<"(", "LeftParen">>,
     <<")", "RightParen">>,
     <<"{", "LeftBrace">>,
     <<"}", "RightBrace">>,
     <<",", "Comma">>,
     <<".", "Dot">>,
     <<"-", "Minus">>,
     <<"+", "Plus">>,
     <<";", "Semicolon">>,
     <<"*", "Star">>}

\* char::is_digit(10)
is_digit(c) == c \in {"0", "1", "2", "3", "4", "5", "6", "7", "8", "9"}

\* Characters whose UTF-8 encoding is longer than one byte: U+00E9, a letter
\* of two bytes, and U+20AC, a sign of three bytes
LatinSmallEAcute == "U+00E9"
EuroSign == "U+20AC"

\* char::is_alphabetic, on the letters the inputs are made of
is_alphabetic(c) ==
    c \in {"a", "b", "c", "d", "e", "f", "g", "h", "i", "j", "k", "l", "m",
           "n", "o", "p", "q", "r", "s", "t", "u", "v", "w", "x", "y", "z",
           "A", "F", "M", LatinSmallEAcute}

\* char::is_alphanumeric
is_alphanumeric(c) == is_alphabetic(c) \/ is_digit(c)

\* char::len_utf8, on the characters the inputs are made of
len_utf8(c) == IF c = LatinSmallEAcute THEN 2 ELSE IF c = EuroSign THEN 3 ELSE 1

\* str::len of the characters s: the number of bytes of their encoding
len(s) ==
    Len(s) + Cardinality({i \in 1..Len(s) : len_utf8(s[i]) = 2})
           + 2 * Cardinality({i \in 1..Len(s) : len_utf8(s[i]) = 3})

\* The byte at which character k of the source starts (characters from 0)
byte_offset(k) == len(SubSeq(source, 1, k))

\* str::is_char_boundary of the source
is_char_boundary(i) == \E k \in 0..Len(source) : byte_offset(k) = i

\* The None of an Option; `unwrap()` panics on it
NoCharacter == "None"
NoSlice == <<"None">>

\* `self.source.chars().nth(c)`
chars_nth(c) == IF c < Len(source) THEN source[c + 1] ELSE NoCharacter

\* `self.source.get(from..to)`: the characters of the bytes from..to, or None
\* when the range is not one of the string or cuts a character
source_get(from, to) ==
    IF from <= to /\ is_char_boundary(from) /\ is_char_boundary(to)
    THEN SubSeq(source,
                (CHOOSE k \in 0..Len(source) : byte_offset(k) = from) + 1,
                CHOOSE k \in 0..Len(source) : byte_offset(k) = to)
    ELSE NoSlice

\* `str::parse::<f64>().ok()` is Some: on digits and dots, the only characters
\* of the slices that Scanner::scan_number takes of the inputs
parse_f64_is_some(s) ==
    /\ s # NoSlice
    /\ \E i \in 1..Len(s) : is_digit(s[i])
    /\ \A i \in 1..Len(s) : is_digit(s[i]) \/ s[i] = "."
    /\ Cardinality({i \in 1..Len(s) : s[i] = "."}) <= 1

\* The '\0' that Scanner::peek returns at the end of the source
NulCharacter == "NUL"

\* Scanner::is_at_end
scanner_is_at_end(c) == c = len(source)

\* Scanner::peek; NoCharacter when its `unwrap()` panics
scanner_peek(c) == IF scanner_is_at_end(c) THEN NulCharacter ELSE chars_nth(c)

\* Scanner::peek_next; NoCharacter when its `unwrap()` panics
peek_next(c) ==
    IF c + 1 >= len(source) THEN NulCharacter ELSE chars_nth(c + 1)

\* Scanner::match_next: whether it returns true; `current` is then c + 1
match_next(c, expected) ==
    IF scanner_is_at_end(c) THEN FALSE ELSE chars_nth(c) = expected

\* LoxError::ScannerError
ScannerError(c, error_type) == [c |-> c, error_type |-> error_type]
NoScannerError == ScannerError("", "none")

\* No error that is returned: a panic of `unwrap()` on None
Unwrapped == ScannerError("", "panic")

\* What a scanning method did: the tokens it pushed, `current` and `line`
\* when it returns, and the error of the Result it returns
Scanned(pushed, c, ln, err) ==
    [pushed |-> pushed, current |-> c, line |-> ln, err |-> err]

\* The scanning method panicked with `current` = c
Panicked(c, ln) == Scanned(<<>>, c, ln, Unwrapped)

\* The word and the TokenType of the pair p of a table
Word(p) == p[1]
TypeOf(p) == p[2]

\* The TokenType a table gives a word, or the TokenType otherwise
Lookup(table, word, otherwise) ==
    IF \E p \in table : Word(p) = word
    THEN TypeOf(CHOOSE p \in table : Word(p) = word)
    ELSE otherwise

\* The loop of a `//` comment in Scanner::scan_token, as the new `current`:
\* where the loop ends, or where its peek() panics
RECURSIVE comment_loop(_)
comment_loop(c) ==
    IF scanner_peek(c) = NoCharacter THEN c
    ELSE IF scanner_peek(c) # "\n" /\ ~scanner_is_at_end(c)
         THEN comment_loop(c + 1)
         ELSE c

\* A `//` comment of Scanner::scan_token, after its loop
comment_end(c, ln) ==
    IF scanner_peek(c) = NoCharacter THEN Panicked(c, ln)
    ELSE Scanned(<<>>, c, ln, NoScannerError)

\* The loop of Scanner::scan_string, as the new `current` and `line`
RECURSIVE scan_string_loop(_, _)
scan_string_loop(c, ln) ==
    IF scanner_peek(c) = NoCharacter THEN [current |-> c, line |-> ln]
    ELSE IF scanner_peek(c) # "\"" /\ ~scanner_is_at_end(c)
         THEN scan_string_loop(c + 1,
                               IF scanner_peek(c) = "\n" THEN ln + 1 ELSE ln)
         ELSE [current |-> c, line |-> ln]

\* Scanner::scan_string, after its loop; the string began at from
scan_string_end(from, after) ==
    IF scanner_peek(after.current) = NoCharacter
    THEN Panicked(after.current, after.line)
    ELSE IF scanner_is_at_end(after.current)
    THEN Scanned(<<>>, after.current, after.line,
                 ScannerError("\"", "UnterminatedString"))
    ELSE IF source_get(from + 1, after.current) = NoSlice
    THEN Panicked(after.current + 1, after.line)
    ELSE Scanned(<<"String">>, after.current + 1, after.line, NoScannerError)

\* Scanner::scan_string, called with `start` = from
scan_string(from, ln) == scan_string_end(from, scan_string_loop(from + 1, ln))

\* The `while self.peek().is_digit(10)` loops of Scanner::scan_number
RECURSIVE digits_loop(_)
digits_loop(c) == IF is_digit(scanner_peek(c)) THEN digits_loop(c + 1) ELSE c

\* The push of Scanner::scan_number
scan_number_push(from, c, ln) ==
    IF scanner_peek(c) = NoCharacter \/ ~parse_f64_is_some(source_get(from, c))
    THEN Panicked(c, ln)
    ELSE Scanned(<<"Number">>, c, ln, NoScannerError)

\* Scanner::scan_number, after its first loop
scan_number_fraction(from, c, ln) ==
    IF scanner_peek(c) = NoCharacter THEN Panicked(c, ln)
    ELSE IF scanner_peek(c) = "." /\ peek_next(c) = NoCharacter
    THEN Panicked(c, ln)
    ELSE IF scanner_peek(c) = "." /\ is_digit(peek_next(c))
    THEN scan_number_push(from, digits_loop(c + 1), ln)
    ELSE scan_number_push(from, c, ln)

\* Scanner::scan_number, called with `start` = from
scan_number(from, ln) == scan_number_fraction(from, digits_loop(from + 1), ln)

\* The loop of Scanner::scan_identifier
RECURSIVE scan_identifier_loop(_)
scan_identifier_loop(c) ==
    IF is_alphanumeric(scanner_peek(c)) \/ scanner_peek(c) = "_"
    THEN scan_identifier_loop(c + 1)
    ELSE c

\* Scanner::scan_identifier, after its loop
scan_identifier_end(from, c, ln) ==
    IF scanner_peek(c) = NoCharacter \/ source_get(from, c) = NoSlice
    THEN Panicked(c, ln)
    ELSE Scanned(<<Lookup(RESERVED_IDENTIFIERS, source_get(from, c),
                          "Identifier")>>,
                 c, ln, NoScannerError)

\* Scanner::scan_identifier
scan_identifier(from, c, ln) ==
    scan_identifier_end(from, scan_identifier_loop(c), ln)

\* A lexeme of one character, or of two when the next character is `=`
one_or_two(c, ln, two, one) ==
    IF scanner_peek(c) = NoCharacter THEN Panicked(c, ln)
    ELSE IF match_next(c, "=")
    THEN Scanned(<<two>>, c + 1, ln, NoScannerError)
    ELSE Scanned(<<one>>, c, ln, NoScannerError)

\* The `match c` of Scanner::scan_token, called with `start` = from
scan_token_match(from, ln) ==
    CASE Lookup(SingleCharacterLexemes, source[from + 1], "") # "" ->
            Scanned(<<Lookup(SingleCharacterLexemes, source[from + 1], "")>>,
                    from + 1, ln, NoScannerError)
      [] source[from + 1] = "!" -> one_or_two(from + 1, ln, "BangEqual", "Bang")
      [] source[from + 1] = "=" -> one_or_two(from + 1, ln, "EqualEqual", "Equal")
      [] source[from + 1] = "<" -> one_or_two(from + 1, ln, "LessEqual", "Less")
      [] source[from + 1] = ">" ->
            one_or_two(from + 1, ln, "GreaterEqual", "Greater")
      [] source[from + 1] = "/" ->
            IF scanner_peek(from + 1) = NoCharacter
            THEN Panicked(from + 1, ln)
            ELSE IF match_next(from + 1, "/")
            THEN comment_end(comment_loop(from + 2), ln)
            ELSE Scanned(<<"Slash">>, from + 1, ln, NoScannerError)
      [] source[from + 1] \in {" ", "\r", "\t"} ->
            Scanned(<<>>, from + 1, ln, NoScannerError)
      [] source[from + 1] = "\n" -> Scanned(<<>>, from + 1, ln + 1, NoScannerError)
      [] source[from + 1] = "\"" -> scan_string(from, ln)
      [] OTHER ->
            IF is_digit(source[from + 1]) THEN scan_number(from, ln)
            ELSE IF is_alphabetic(source[from + 1]) \/ source[from + 1] = "_"
            THEN scan_identifier(from, from + 1, ln)
            ELSE Scanned(<<>>, from + 1, ln,
                         ScannerError(source[from + 1], "InvalidCharacter"))

\* Scanner::scan_token, called with `start` = from: `self.advance()`, whose
\* `unwrap()` panics past the last character, and the match
scan_token(from, ln) ==
    IF chars_nth(from) = NoCharacter THEN Panicked(from, ln)
    ELSE scan_token_match(from, ln)

-----------------------------------------------------------------------------
(* src/tests/resolver.rs: scan, parse and resolve, one step per turn of the *)
(* loops of Scanner::scan_tokens and Parser::parse                          *)

MaxSource == 3

\* The characters short sources are made of
Characters ==
    {"@", "#", "\"", "a", "1", ";", " ", "\n", LatinSmallEAcute, EuroSign}

\* Every short source
ShortSources == SeqsUpTo(Characters, MaxSource)

\* `print this;`
ThisTopLevel ==
    <<"p", "r", "i", "n", "t", " ", "t", "h", "i", "s", ";">>

\* `this` in the body of a plain function
ThisInFunction ==
    <<"f", "u", "n", " ", "n", "o", "t", "A", "M", "e", "t", "h",
    "o", "d", "(", ")", " ", "{", "\n", " ", " ", " ", " ",
    " ", " ", " ", " ", "p", "r", "i", "n", "t", " ", "t",
    "h", "i", "s", ";", "\n", " ", " ", " ", " ", "}">>

\* src/tests/resolver.rs, test_error_variable_already_exists
VarTwiceInFunction ==
    <<"f", "u", "n", " ", "b", "a", "d", "(", ")", " ", "{", "\n", " ",
      " ", " ", " ", " ", " ", "v", "a", "r", " ", "a", " ", "=", " ",
      "\"", "f", "i", "r", "s", "t", "\"", ";", "\n", " ", " ", " ", " ",
      " ", " ", "v", "a", "r", " ", "a", " ", "=", " ", "\"", "s", "e",
      "c", "o", "n", "d", "\"", ";", "\n", " ", " ", " ", " ", "}">>

\* src/tests/resolver.rs, test_return_from_init
ReturnValueFromInit ==
    <<"c", "l", "a", "s", "s", " ", "F", "o", "o", " ", "{", "\n", " ",
      " ", " ", " ", " ", " ", " ", " ", "i", "n", "i", "t", "(", ")", " ",
      "{", "\n", " ", " ", " ", " ", " ", " ", " ", " ", " ", " ", " ",
      " ", "r", "e", "t", "u", "r", "n", " ", "t", "r", "u", "e", ";",
      "\n", " ", " ", " ", " ", " ", " ", " ", " ", "}", "\n", " ", " ",
      " ", " ", "}">>

\* The same class with a bare `return;` in `init`
BareReturnInInit ==
    <<"c", "l", "a", "s", "s", " ", "F", "o", "o", " ", "{", " ", "i", "n",
      "i", "t", "(", ")", " ", "{", " ", "r", "e", "t", "u", "r", "n", ";",
      " ", "}", " ", "}">>

\* A name declared again in a block of the block that declares it
ShadowInInnerBlock ==
    <<"{", " ", "v", "a", "r", " ", "a", ";", " ", "{", " ", "v", "a", "r",
      " ", "a", ";", " ", "}", " ", "}">>

\* Two `var` declarations at global scope, in a block and in a function body
ScopeOpenings ==
    {<<>>, <<"{", " ">>,
     <<"f", "u", "n", " ", "f", "(", ")", " ", "{", " ">>}
ScopeClosing(opening) == IF opening = <<>> THEN <<>> ELSE <<" ", "}">>
VarDeclaration(name) == <<"v", "a", "r", " ", name, ";">>
TwoDeclarations(opening, first, second) ==
    opening \o VarDeclaration(first) \o <<" ">> \o VarDeclaration(second)
        \o ScopeClosing(opening)
DeclarationSources ==
    {TwoDeclarations(opening, first, second) :
        opening \in ScopeOpenings, first \in Names, second \in Names}

\* The sources of the tests, and sources near them
TestSources ==
    {ThisTopLevel, ThisInFunction,
     <<"p", "r", "i", "n", "t", " ", "1", ";">>,
     VarTwiceInFunction, ReturnValueFromInit, BareReturnInInit,
     ShadowInInnerBlock}
        \cup DeclarationSources

\* Sources with a character of more than one byte: in a comment that a
\* newline ends, in a string, before and after a number, in a name
WideSources ==
    {<<"/", "/", wide, "\n">> \o rest :
        wide \in {LatinSmallEAcute, EuroSign},
        rest \in {<<>>, <<"1">>, <<"1", " ">>, <<"1", ".", "5">>, <<"!">>, <<"/">>}}
        \cup {<<"\"", LatinSmallEAcute, "\"", ";">>,
               <<"v", "a", "r", " ", LatinSmallEAcute, ";">>,
               <<"1", ".", "5", ";", "/", "/", EuroSign>>}

Sources == ShortSources \cup TestSources \cup WideSources

\* Scanner::new and the rest of common::scanner_and_interpreter
PipelineInit ==
    /\ source \in Sources
    /\ tokens = <<>>
    /\ start = 0
    /\ scanner_current = 0
    /\ line = 1
    /\ scanResult = [st |-> "none"]
    /\ resolveResult = [st |-> "none"]
    /\ current = 0
    /\ statements = <<>>
    /\ reported = <<>>
    /\ parseResult = [st |-> "none"]
    /\ frames = <<new>>
    /\ last = Op("new", 1, 0, "-", 0, OkResult(0))
    /\ EnvIdle
    /\ InterpreterIdle

\* `self.scan_token()?` of Scanner::scan_tokens on what scan_token did
ScanMatch(r) ==
    /\ tokens' = tokens \o r.pushed
    /\ scanner_current' = r.current
    /\ line' = r.line
    /\ scanResult' = IF r.err = Unwrapped
                     THEN [st |-> "panic"]
                     ELSE IF r.err # NoScannerError
                     THEN [st |-> "err", err |-> r.err]
                     ELSE scanResult

\* One turn of the loop of Scanner::scan_tokens
ScanToken ==
    /\ scanResult.st = "none"
    /\ ~scanner_is_at_end(scanner_current)
    /\ start' = scanner_current
    /\ ScanMatch(scan_token(scanner_current, line))
    /\ UNCHANGED <<source, resolveResult, current, statements, reported,
                   parseResult, envVars, blockVars, interpreterVars>>

\* Scanner::scan_tokens leaves its loop, pushes Eof and returns the tokens
ScanReturn ==
    /\ scanResult.st = "none"
    /\ scanner_is_at_end(scanner_current)
    /\ tokens' = Append(tokens, "Eof")
    /\ scanResult' = [st |-> "ok"]
    /\ UNCHANGED <<source, start, scanner_current, line, resolveResult,
                   current, statements, reported, parseResult, envVars,
                   blockVars, interpreterVars>>

\* `if let Ok(tokens) = scanner.scan_tokens()`: Parser::new(tokens) and
\* parser.parse()
TestParse ==
    /\ scanResult.st = "ok"
    /\ ParserNext

\* Token.lexeme of every token that a scan from c on pushes: the characters
\* from Scanner.start to Scanner.current (a string token's lexeme is not used)
RECURSIVE lexemes_from(_, _)
lexemes_push(c, r) ==
    (IF r.pushed # <<>> THEN <<source_get(c, r.current)>> ELSE <<>>)
        \o lexemes_from(r.current, r.line)
lexemes_from(c, ln) ==
    IF scanner_is_at_end(c) THEN <<>>
    ELSE lexemes_push(c, scan_token(c, ln))

\* Token.lexeme of the token at an index of Parser.tokens
lexeme(token) == lexemes_from(0, 1)[token + 1]

\* Expr::This and Stmt::Class, which the parser never builds
This(keyword) == [kind |-> "This", keyword |-> keyword]
ClassStmt(name, superclass, methods) ==
    [kind |-> "Class", name |-> name, superclass |-> superclass,
     methods |-> methods]

\* Result<(), LoxResult> of the resolver, with the scope stack it leaves: a
\* stack of mappings from a name to whether it is defined
Resolved(scopes) ==
    [st |-> "ok", error_type |-> "none", token |-> -1, scopes |-> scopes]
ResolverError(error_type, token) ==
    [st |-> "err", error_type |-> error_type, token |-> token, scopes |-> <<>>]

\* Two resolutions in a row: the first error aborts, else the second goes on
\* from the scope stack the first has left
and_then(first, rest(_)) == IF first.st # "ok" THEN first ELSE rest(first.scopes)

\* Resolver: a scope is pushed, and popped
begin_scope(scopes) == Append(scopes, EmptyMap)
end_scope(scopes) == SubSeq(scopes, 1, Len(scopes) - 1)

\* Resolver: declare(name); the global scope is not on the stack
declare(scopes, name) ==
    IF scopes = <<>> THEN Resolved(scopes)
    ELSE IF lexeme(name) \in DOMAIN scopes[Len(scopes)]
    THEN ResolverError("VariableAlreadyExists", name)
    ELSE Resolved([scopes EXCEPT ![Len(scopes)] = insert(@, lexeme(name), FALSE)])

\* Resolver: define(name), of the name of a token and of `this` and `super`
define_name(scopes, name) ==
    IF scopes = <<>> THEN scopes
    ELSE [scopes EXCEPT ![Len(scopes)] = insert(@, name, TRUE)]
resolver_define(scopes, name) == define_name(scopes, lexeme(name))

\* The name is declared in the innermost scope and not defined yet
DeclaredOnly(scopes, name) ==
    /\ scopes # <<>>
    /\ name \in DOMAIN scopes[Len(scopes)]
    /\ ~scopes[Len(scopes)][name]

\* Resolver: every parameter of a function is declared and defined
RECURSIVE declare_all(_, _, _)
declare_all(params, i, scopes) ==
    IF i > Len(params) THEN Resolved(scopes)
    ELSE and_then(declare(scopes, params[i]), LAMBDA d :
             declare_all(params, i + 1, resolver_define(d, params[i])))

\* Resolver: the walk over a statement or expression, in a function context
\* (None, Function, Method or Initializer) and a class context (None, Class
\* or Subclass), with the static rules; the depth map is left out
RECURSIVE resolve(_, _, _, _), resolve_all(_, _, _, _, _)
RECURSIVE resolve_function(_, _, _, _), resolve_methods(_, _, _, _)
resolve(node, function_type, class_type, scopes) ==
    CASE node.kind \in {"None", "Literal"} -> Resolved(scopes)
      [] node.kind = "Variable" ->
            IF DeclaredOnly(scopes, lexeme(node.name))
            THEN ResolverError("VariableNotInitialized", node.name)
            ELSE Resolved(scopes)
      [] node.kind = "This" ->
            IF class_type = "None"
            THEN ResolverError("ThisOutsideClass", node.keyword)
            ELSE Resolved(scopes)
      [] node.kind \in {"Grouping", "Expression", "Print"} ->
            resolve(node.expression, function_type, class_type, scopes)
      [] node.kind = "Unary" ->
            resolve(node.right, function_type, class_type, scopes)
      [] node.kind \in {"Binary", "Logical"} ->
            and_then(resolve(node.left, function_type, class_type, scopes),
                LAMBDA s : resolve(node.right, function_type, class_type, s))
      [] node.kind = "Assign" ->
            resolve(node.value, function_type, class_type, scopes)
      [] node.kind = "Call" ->
            and_then(resolve(node.callee, function_type, class_type, scopes),
                LAMBDA s : resolve_all(node.arguments, 1, function_type,
                                       class_type, s))
      [] node.kind = "Var" ->
            and_then(declare(scopes, node.name), LAMBDA d :
            and_then(resolve(node.initializer, function_type, class_type, d),
                LAMBDA s : Resolved(resolver_define(s, node.name))))
      [] node.kind = "Block" ->
            and_then(resolve_all(node.statements, 1, function_type,
                                 class_type, begin_scope(scopes)),
                LAMBDA s : Resolved(end_scope(s)))
      [] node.kind = "If" ->
            and_then(resolve(node.condition, function_type, class_type, scopes),
                LAMBDA c :
            and_then(resolve(node.then_branch, function_type, class_type, c),
                LAMBDA t :
                resolve(node.else_branch, function_type, class_type, t)))
      [] node.kind = "While" ->
            and_then(resolve(node.condition, function_type, class_type, scopes),
                LAMBDA c : resolve(node.body, function_type, class_type, c))
      [] node.kind = "Function" ->
            and_then(declare(scopes, node.name), LAMBDA d :
                resolve_function(node, "Function", class_type,
                                 resolver_define(d, node.name)))
      [] node.kind = "Class" ->
            and_then(declare(scopes, node.name), LAMBDA d :
            IF node.superclass.kind # "None"
               /\ lexeme(node.superclass.name) = lexeme(node.name)
            THEN ResolverError("ClassInheritItself", node.superclass.name)
            ELSE IF node.superclass.kind # "None"
            THEN and_then(
                     resolve_methods(
                         node.methods, 1, "Subclass",
                         define_name(
                             begin_scope(
                                 define_name(
                                     begin_scope(resolver_define(d, node.name)),
                                     <<"s", "u", "p", "e", "r">>)),
                             <<"t", "h", "i", "s">>)),
                     LAMBDA s : Resolved(end_scope(end_scope(s))))
            ELSE and_then(
                     resolve_methods(
                         node.methods, 1, "Class",
                         define_name(begin_scope(resolver_define(d, node.name)),
                                     <<"t", "h", "i", "s">>)),
                     LAMBDA s : Resolved(end_scope(s))))
      [] node.kind = "Return" ->
            IF function_type = "None"
            THEN ResolverError("TopLevelReturn", node.keyword)
            ELSE IF node.value.kind # "None" /\ function_type = "Initializer"
            THEN ResolverError("ReturnFromInit", node.keyword)
            ELSE resolve(node.value, function_type, class_type, scopes)

\* The walk over the nodes of a list from the i-th on
resolve_all(nodes, i, function_type, class_type, scopes) ==
    IF i > Len(nodes) THEN Resolved(scopes)
    ELSE and_then(resolve(nodes[i], function_type, class_type, scopes),
             LAMBDA s : resolve_all(nodes, i + 1, function_type, class_type, s))

\* Resolver: the parameters and the body of a function, in a scope of its own
resolve_function(node, function_type, class_type, scopes) ==
    and_then(declare_all(node.params, 1, begin_scope(scopes)), LAMBDA p :
    and_then(resolve_all(node.body, 1, function_type, class_type, p),
        LAMBDA s : Resolved(end_scope(s))))

\* Resolver: the methods of a class from the i-th on; `init` is an initializer
resolve_methods(methods, i, class_type, scopes) ==
    IF i > Len(methods) THEN Resolved(scopes)
    ELSE and_then(
             resolve_function(
                 methods[i],
                 IF lexeme(methods[i].name) = <<"i", "n", "i", "t">>
                 THEN "Initializer" ELSE "Method",
                 class_type, scopes),
             LAMBDA s : resolve_methods(methods, i + 1, class_type, s))

\* Resolver::resolve_stmts
resolve_stmts(stmts) == resolve_all(stmts, 1, "None", "None", <<>>)

\* `Ok(stmts) => .. resolver.resolve_stmts(&stmts)`
TestResolve ==
    /\ parseResult.st = "ok"
    /\ resolveResult.st = "none"
    /\ resolveResult' = resolve_stmts(parseResult.statements)
    /\ UNCHANGED <<envVars, blockVars, parserVars, interpreterVars, scannerVars>>

\* `interpreter.interpret(&stmts)`, which the test reaches when the resolver
\* has returned Ok: the statements are handed to Interpreter::interpret
TestInterpret ==
    /\ resolveResult.st = "ok"
    /\ program = <<>>
    /\ program' = parseResult.statements
    /\ UNCHANGED <<pc, executed, envVars, blockVars, parserVars, scannerVars,
                   resolveResult>>

PipelineNext ==
    \/ ScanToken
    \/ ScanReturn
    \/ TestParse
    \/ TestResolve
    \/ TestInterpret

PipelineSpec == PipelineInit /\ [][PipelineNext]_vars

-----------------------------------------------------------------------------
(* Properties of scanning and of the pipeline *)

\* The errors of a scan from c on that goes on after each error
RECURSIVE ErrorsFrom(_, _)
ErrorsFrom(c, ln) ==
    IF scanner_is_at_end(c) \/ scan_token(c, ln).err = Unwrapped THEN <<>>
    ELSE (IF scan_token(c, ln).err # NoScannerError
          THEN <<scan_token(c, ln).err>>
          ELSE <<>>)
         \o ErrorsFrom(scan_token(c, ln).current, scan_token(c, ln).line)

\* The scanner errors that Scanner::scan_tokens has returned to its caller
ScannerErrorsReturned ==
    IF scanResult.st = "err" THEN <<scanResult.err>> ELSE <<>>

\* C19: after a scanner error (invalid character or unterminated string)
\* scanning continues over the rest of the source, so that every further
\* scanner error of the input is reported too, and the program is not
\* executed.
C19_ScanContinuesAfterError ==
    /\ scanResult.st # "none" => ScannerErrorsReturned = ErrorsFrom(0, 1)
    /\ ErrorsFrom(0, 1) # <<>>
          => parseResult.st = "none" /\ resolveResult.st = "none"

\* C29: Scanner::scan_tokens terminates without panicking on every source
\* string, also one with characters whose UTF-8 encoding is longer than one
\* byte, and returns either a scanner error or a token list whose last
\* token, and only that one, is Eof.
C29_ScanTokensReturns ==
    /\ scanResult.st # "panic"
    /\ scanResult.st = "ok"
          => /\ tokens # <<>>
             /\ \A i \in 1..Len(tokens) : tokens[i] = "Eof" <=> i = Len(tokens)

\* Scan, parse and resolve have ended: with an error, or with the result of
\* the resolver
PipelineEnded ==
    \/ scanResult.st = "err"
    \/ parseResult.st = "err"
    \/ resolveResult.st # "none"

\* C20: a `this` expression that is not inside a class body, at top level or
\* inside a plain function, makes scan, parse and resolve end with the
\* resolver error ThisOutsideClass on the `this` token.
C20_ThisOutsideClass ==
    (source \in {ThisTopLevel, ThisInFunction} /\ PipelineEnded)
        => /\ resolveResult.st = "err"
           /\ resolveResult.error_type = "ThisOutsideClass"
           /\ tokens[resolveResult.token + 1] = "This"

\* C21: a `return <value>;` statement inside a class's `init` method makes
\* scan, parse and resolve end with the resolver error ReturnFromInit on the
\* `return` token, while a bare `return;` inside `init` is accepted.
C21_ReturnFromInit ==
    PipelineEnded
        => /\ source = ReturnValueFromInit
                => /\ resolveResult.st = "err"
                   /\ resolveResult.error_type = "ReturnFromInit"
                   /\ tokens[resolveResult.token + 1] = "Return"
           /\ source = BareReturnInInit => resolveResult.st = "ok"

\* The sources that declare a name twice in one scope that is not the global
\* scope, and the sources that declare twice but not so
Redeclaring ==
    {VarTwiceInFunction}
        \cup {TwoDeclarations(opening, name, name) :
                 opening \in ScopeOpenings \ {<<>>}, name \in Names}
NotRedeclaring == ({ShadowInInnerBlock} \cup DeclarationSources) \ Redeclaring

\* C22: declaring the same name twice in the same non-global scope, such as
\* two `var a` in one function body or one block, is reported by the resolver
\* as VariableAlreadyExists on the second declaration and the program is not
\* executed, whereas declaring the same name twice at global scope, or again
\* in an inner scope, is accepted.
C22_SameScopeRedeclaration ==
    PipelineEnded
        => /\ source \in Redeclaring
                => /\ resolveResult.st = "err"
                   /\ resolveResult.error_type = "VariableAlreadyExists"
                   /\ tokens[resolveResult.token] = "Var"
                   /\ \E first \in 0..(resolveResult.token - 1) :
                         /\ tokens[first + 1] = "Identifier"
                         /\ lexeme(first) = lexeme(resolveResult.token)
                   /\ program = <<>>
           /\ source \in NotRedeclaring => resolveResult.st = "ok"

\* the resolver has refused the second `var a` of the function body of the test
C22_Witness ==
    /\ source = VarTwiceInFunction
    /\ resolveResult.st = "err"
    /\ resolveResult.error_type = "VariableAlreadyExists"
    /\ lexeme(resolveResult.token) = <<"a">>

====
